---- MODULE Spec2Model ----
(***************************************************************************)
(* A model of the PC-Bot hardware tools: the compatibility checker         *)
(* (tools/check_compatibility.py), the hardware query tool                 *)
(* (tools/querytools.py), the power estimator                              *)
(* (tools/power_consumption.py) and the knowledge-builder pipeline         *)
(* (knowledge-builder/scripts/process_videos.py).                          *)
(*                                                                         *)
(* Python strings are sequences of one-character strings, so that          *)
(* lower(), replace(), the regular expressions, float() and str() are      *)
(* computed character by character.  Confidences are in hundredths         *)
(* (0.8 is 80).                                                            *)
(***************************************************************************)
EXTENDS Integers, Sequences, FiniteSets, TLC

VARIABLES
    rules,      \* CompatibilityChecker.rules: check type -> rule function
    pc,         \* "idle": no call in progress; "returned": a call has ended;
                \* "processing": process_videos is in its loop
    call,       \* the arguments and the outcome of the call that ended last
    nChecks,    \* check_compatibility calls made so far
    llmCalls,   \* _check_with_llm invocations made so far
    held,       \* the dicts and lists the caller holds and passes by reference,
                \* and the query tool's db_path
    csv_rows    \* the file at csv_path: its rows after the header row

vars == <<rules, pc, call, nChecks, llmCalls, held, csv_rows>>

(***************************************************************************)
(* Bounds of the model.                                                    *)
(***************************************************************************)
MaxChecks == 2

MaxFilters == 2

MaxGpus == 2

MaxTasks == 2

(***************************************************************************)
(* Characters and strings.                                                 *)
(***************************************************************************)
\* The characters used, in code-point order (str < str compares code points).
Ascii ==
    <<" ", "'", ",", "-", ".", "/",
      "0", "1", "2", "3", "4", "5", "6", "7", "8", "9",
      ":", "<", "=", ">",
      "A", "B", "C", "D", "E", "F", "G", "H", "I", "J", "K", "L", "M",
      "N", "O", "P", "Q", "R", "S", "T", "U", "V", "W", "X", "Y", "Z",
      "_",
      "a", "b", "c", "d", "e", "f", "g", "h", "i", "j", "k", "l", "m",
      "n", "o", "p", "q", "r", "s", "t", "u", "v", "w", "x", "y", "z",
      "{", "}">>

Chars == {Ascii[i] : i \in 1..Len(Ascii)}

CodeOf == [c \in Chars |-> CHOOSE i \in 1..Len(Ascii) : Ascii[i] = c]

Digits == {"0", "1", "2", "3", "4", "5", "6", "7", "8", "9"}

IsDigit(c) == c \in Digits

DigitVal(c) == CodeOf[c] - CodeOf["0"]

IsUpper(c) == CodeOf[c] >= CodeOf["A"] /\ CodeOf[c] <= CodeOf["Z"]

IsLowerAlnum(c) == IsDigit(c) \/ (CodeOf[c] >= CodeOf["a"] /\ CodeOf[c] <= CodeOf["z"])

\* str.lower() on one character
LowerChar(c) == IF IsUpper(c) THEN Ascii[CodeOf[c] - CodeOf["A"] + CodeOf["a"]] ELSE c

\* str.lower()
Lower(s) == [i \in 1..Len(s) |-> LowerChar(s[i])]

\* s.replace(' ', '')
RemoveSpaces(s) == SelectSeq(s, LAMBDA c : c # " ")

\* re.sub(r'[^a-z0-9]', '', s)
SubNonAlnum(s) == SelectSeq(s, IsLowerAlnum)

\* p in s, for two strings
Contains(p, s) ==
    \E i \in 1..(Len(s) - Len(p) + 1) : SubSeq(s, i, i + Len(p) - 1) = p

\* s.startswith(p)
StartsWith(s, p) == Len(s) >= Len(p) /\ SubSeq(s, 1, Len(p)) = p

\* s < t for two strings: the first differing code point decides, a proper
\* prefix is smaller
RECURSIVE StrLess(_, _)
StrLess(s, t) ==
    IF Len(t) = 0 THEN FALSE
    ELSE IF Len(s) = 0 THEN TRUE
    ELSE IF s[1] = t[1] THEN StrLess(Tail(s), Tail(t))
    ELSE CodeOf[s[1]] < CodeOf[t[1]]

\* int() of a string of digits
RECURSIVE IntOfDigits(_)
IntOfDigits(d) ==
    IF Len(d) = 0 THEN 0
    ELSE 10 * IntOfDigits(SubSeq(d, 1, Len(d) - 1)) + DigitVal(d[Len(d)])

\* the position of the first character of s at or after i that satisfies
\* IsDigit, 0 when there is none
RECURSIVE FirstDigitFrom(_, _)
FirstDigitFrom(s, i) ==
    IF i > Len(s) THEN 0
    ELSE IF IsDigit(s[i]) THEN i
    ELSE FirstDigitFrom(s, i + 1)

\* the end of the run of digits of s that starts at i
RECURSIVE DigitRunEnd(_, _)
DigitRunEnd(s, i) ==
    IF i < Len(s) /\ IsDigit(s[i + 1]) THEN DigitRunEnd(s, i + 1) ELSE i

\* re.search(r'\d+', s): the first maximal run of digits, <<>> for no match
SearchDigits(s) ==
    LET i == FirstDigitFrom(s, 1)
    IN  IF i = 0 THEN <<>> ELSE SubSeq(s, i, DigitRunEnd(s, i))

\* whether ddr[345] matches s at position i
DdrAt(s, i) ==
    /\ i + 3 <= Len(s)
    /\ SubSeq(s, i, i + 2) = <<"d", "d", "r">>
    /\ s[i + 3] \in {"3", "4", "5"}

\* re.findall(r'ddr[345]', s) from position i on: the matches left to right,
\* the search resuming after each match
RECURSIVE FindAllDdrFrom(_, _)
FindAllDdrFrom(s, i) ==
    IF i + 3 > Len(s) THEN <<>>
    ELSE IF DdrAt(s, i)
         THEN <<SubSeq(s, i, i + 3)>> \o FindAllDdrFrom(s, i + 4)
         ELSE FindAllDdrFrom(s, i + 1)

FindAllDdr(s) == FindAllDdrFrom(s, 1)

(***************************************************************************)
(* JSON values of a specs mapping.                                         *)
(***************************************************************************)
Num(n) == [t |-> "num", n |-> n, s |-> <<>>]

Str(s) == [t |-> "str", n |-> 0, s |-> s]

IsStr(v) == v.t = "str"

IsNum(v) == v.t = "num"

\* bool(v)
Truthy(v) == IF IsNum(v) THEN v.n # 0 ELSE Len(v.s) > 0

\* specs.get(key, default)
Get(specs, key, default) == IF key \in DOMAIN specs THEN specs[key] ELSE default

\* a < b on two JSON scalars: numbers by value, strings by code point; a
\* number against a string is a TypeError ("raise")
Less(a, b) ==
    IF IsNum(a) /\ IsNum(b) THEN IF a.n < b.n THEN "true" ELSE "false"
    ELSE IF IsStr(a) /\ IsStr(b) THEN IF StrLess(a.s, b.s) THEN "true" ELSE "false"
    ELSE "raise"

(***************************************************************************)
(* Component records.  category is a string; top is the set of the keys    *)
(* name, brand and model the record carries; specs maps a key to a value.  *)
(***************************************************************************)
Component(category, top, specs) ==
    [category |-> category, top |-> top, specs |-> specs]

AllTop == {"name", "brand", "model"}

EmptySpecs == [k \in {} |-> Num(0)]

c_cpu == <<"c", "p", "u">>
c_motherboard == <<"m", "o", "t", "h", "e", "r", "b", "o", "a", "r", "d">>
c_ram == <<"r", "a", "m">>
c_case == <<"c", "a", "s", "e">>
c_gpu == <<"g", "p", "u">>
c_power == <<"p", "o", "w", "e", "r">>
c_psu == <<"p", "s", "u">>
c_cooling == <<"c", "o", "o", "l", "i", "n", "g">>
c_probe == <<"p", "r", "o", "b", "e">>

(***************************************************************************)
(* Verdicts and outcomes.  compatible is "true", "false" or "none"; a      *)
(* reason is the message's template and the values it interpolates.        *)
(***************************************************************************)
Reason(tag, args) == [tag |-> tag, args |-> args]

Verdict(compatible, reason, conf) ==
    [compatible |-> compatible, reason |-> reason, conf |-> conf]

NoVerdict == Verdict("none", Reason("", <<>>), 0)

\* a call that returned v
Returned(v) == [kind |-> "ok", v |-> v, exc |-> ""]

\* a call that raised exc
Raised(exc) == [kind |-> "raise", v |-> NoVerdict, exc |-> exc]

(***************************************************************************)
(* The rule functions.                                                     *)
(***************************************************************************)
\* socket_cleaner: lowercase, drop spaces, drop what is not [a-z0-9]
\* a cleaner that does not lowercase first
socket_cleaner_keeping_case(s) == SubNonAlnum(RemoveSpaces(s))

socket_cleaner(s) == SubNonAlnum(RemoveSpaces(Lower(s)))

_check_cpu_motherboard(cpu, motherboard) ==
    LET cs == Get(cpu.specs, "socket", Str(<<>>))
        ms == Get(motherboard.specs, "socket", Str(<<>>))
    IN  IF ~IsStr(cs) \/ ~IsStr(ms) THEN Raised("AttributeError")
        ELSE LET cpu_socket == socket_cleaner(cs.s)
                 mobo_socket == socket_cleaner(ms.s)
             IN  IF Len(cpu_socket) > 0 /\ Len(mobo_socket) > 0
                 THEN IF cpu_socket = mobo_socket
                      THEN Returned(Verdict("true", Reason("socket_match", <<cs>>), 100))
                      ELSE Returned(Verdict("false", Reason("socket_mismatch", <<cs, ms>>), 100))
                 ELSE Returned(Verdict("none", Reason("socket_missing", <<>>), 50))

_check_motherboard_memory(motherboard, memory) ==
    LET sup == Get(motherboard.specs, "memory_support", Str(<<>>))
        mt == Get(memory.specs, "memory_type", Str(<<>>))
    IN  IF ~IsStr(sup) \/ ~IsStr(mt) THEN Raised("AttributeError")
        ELSE LET supported_types == FindAllDdr(Lower(sup.s))
                 found == FindAllDdr(Lower(mt.s))
             IN  IF Len(supported_types) = 0 \/ Len(found) = 0
                 THEN Returned(Verdict("none", Reason("memory_missing", <<>>), 50))
                 ELSE LET mem_type == found[1]
                      IN  IF \E i \in 1..Len(supported_types) : supported_types[i] = mem_type
                          THEN Returned(Verdict("true", Reason("memory_supported", <<Str(mem_type)>>), 100))
                          ELSE Returned(Verdict("false", Reason("memory_unsupported", <<Str(mem_type)>>), 90))

_check_motherboard_case(motherboard, case) ==
    LET ff == Get(motherboard.specs, "form_factor", Str(<<>>))
        sf == Get(case.specs, "supported_form_factors", Str(<<>>))
    IN  IF ~IsStr(ff) \/ ~IsStr(sf) THEN Raised("AttributeError")
        ELSE LET mobo_form_factor == Lower(ff.s)
                 case_support == Lower(sf.s)
             IN  IF Len(mobo_form_factor) = 0 \/ Len(case_support) = 0
                 THEN Returned(Verdict("none", Reason("form_factor_missing", <<>>), 50))
                 ELSE IF Contains(mobo_form_factor, case_support)
                      THEN Returned(Verdict("true", Reason("form_factor_fits", <<Str(mobo_form_factor)>>), 100))
                      ELSE Returned(Verdict("false", Reason("form_factor_unsupported", <<Str(mobo_form_factor)>>), 90))

\* float(re.search(r'\d+', v).group()) inside the try: <<>> when it raises
\* (v is no string, or holds no digit)
LengthDigits(v) == IF IsStr(v) THEN SearchDigits(v.s) ELSE <<>>

_check_gpu_case(gpu, case) ==
    LET gd == LengthDigits(Get(gpu.specs, "length", Str(<<>>)))
        cd == LengthDigits(Get(case.specs, "max_gpu_length", Str(<<>>)))
    IN  IF Len(gd) = 0 \/ Len(cd) = 0
        THEN Returned(Verdict("none", Reason("size_incomplete", <<>>), 50))
        ELSE LET gpu_length == IntOfDigits(gd)
                 case_max_gpu == IntOfDigits(cd)
             IN  IF gpu_length <= case_max_gpu
                 THEN Returned(Verdict("true", Reason("gpu_fits", <<Num(gpu_length)>>), 100))
                 ELSE Returned(Verdict("false", Reason("gpu_too_long",
                                       <<Num(gpu_length), Num(case_max_gpu)>>), 90))

_check_gpu_power(gpu, power) ==
    LET required_power == Get(gpu.specs, "recommended_psu", Num(0))
        psu_power == Get(power.specs, "output_power", Num(0))
        psu_connectors == Get(power.specs, "pcie_connectors", Num(0))
        gpu_required == Get(gpu.specs, "power_connectors", Num(0))
    IN  IF ~(Truthy(required_power) /\ Truthy(psu_power)
             /\ Truthy(psu_connectors) /\ Truthy(gpu_required))
        THEN Returned(Verdict("none", Reason("power_incomplete", <<>>), 60))
        ELSE LET low == Less(psu_power, required_power)
                 few == Less(psu_connectors, gpu_required)
             IN  IF low = "raise" \/ few = "raise" THEN Raised("TypeError")
                 ELSE IF low = "true" /\ few = "true"
                      THEN Returned(Verdict("false", Reason("power_low;connectors_few",
                               <<psu_power, required_power, psu_connectors, gpu_required>>), 90))
                 ELSE IF low = "true"
                      THEN Returned(Verdict("false", Reason("power_low",
                               <<psu_power, required_power>>), 90))
                 ELSE IF few = "true"
                      THEN Returned(Verdict("false", Reason("connectors_few",
                               <<psu_connectors, gpu_required>>), 90))
                 ELSE Returned(Verdict("true", Reason("power_ok", <<>>), 90))

_check_power_motherboard(power, motherboard) ==
    LET required_connector == Get(motherboard.specs, "power_connector", Str(<<>>))
        psu_connector == Get(power.specs, "motherboard_connector", Str(<<>>))
    IN  IF ~Truthy(required_connector) \/ ~Truthy(psu_connector)
        THEN Returned(Verdict("none", Reason("connector_missing", <<>>), 50))
        ELSE IF ~IsStr(psu_connector) \/ ~IsStr(required_connector)
             THEN Raised("AttributeError")
             ELSE IF Lower(psu_connector.s) = Lower(required_connector.s)
                  THEN Returned(Verdict("true", Reason("connector_match", <<required_connector>>), 100))
                  ELSE Returned(Verdict("false", Reason("connector_mismatch",
                                        <<psu_connector, required_connector>>), 90))

(***************************************************************************)
(* The adjudicator.  Its response is a text: json is whether json.loads    *)
(* parses it, obj whether the parsed value is an object, keys the keys the *)
(* object carries, and compatible, reason, confidence their values.        *)
(***************************************************************************)
Response(json, obj, keys, compatible, reason, confidence) ==
    [json |-> json, obj |-> obj, keys |-> keys,
     compatible |-> compatible, reason |-> reason, confidence |-> confidence]

VerdictKeys == {"compatible", "reason", "confidence"}

\* the text check_compatibility.py stands in for the adjudicator's answer
simulated_llm_output ==
    Response(TRUE, TRUE, VerdictKeys, "true", Reason("llm", <<>>), 70)

\* the verdict of the except branch
LlmFailed == Verdict("false", Reason("llm_failed", <<>>), 0)

\* the prompt's f-string reads name, brand and model of a record
PromptOk(component) == AllTop \subseteq component.top

_check_with_llm(component_a, component_b, response) ==
    IF ~PromptOk(component_a) \/ ~PromptOk(component_b) THEN Raised("KeyError")
    ELSE IF ~response.json THEN Returned(LlmFailed)
    ELSE IF ~response.obj THEN Raised("TypeError")
    ELSE IF ~(VerdictKeys \subseteq response.keys) THEN Raised("KeyError")
    ELSE Returned(Verdict(response.compatible, response.reason, response.confidence))

(***************************************************************************)
(* check_compatibility.                                                    *)
(***************************************************************************)
\* f"{cat_a}_{cat_b}"
CheckType(cat_a, cat_b) == cat_a \o <<"_">> \o cat_b

\* CompatibilityChecker.__init__: the rule table
InitRules ==
    (CheckType(c_cpu, c_motherboard) :> "_check_cpu_motherboard")
    @@ (CheckType(c_motherboard, c_ram) :> "_check_motherboard_memory")
    @@ (CheckType(c_motherboard, c_case) :> "_check_motherboard_case")
    @@ (CheckType(c_gpu, c_case) :> "_check_gpu_case")
    @@ (CheckType(c_gpu, c_power) :> "_check_gpu_power")
    @@ (CheckType(c_power, c_motherboard) :> "_check_power_motherboard")

\* a rule a caller registers under probe_probe: it answers with the first
\* record's own confidence
ProbeRule(a, b) ==
    Returned(Verdict("true", Reason("probe", <<>>), a.specs["confidence"].n))

\* self.rules[check_type](component_a, component_b)
ApplyRule(rule, a, b) ==
    CASE rule = "_check_cpu_motherboard" -> _check_cpu_motherboard(a, b)
      [] rule = "_check_motherboard_memory" -> _check_motherboard_memory(a, b)
      [] rule = "_check_motherboard_case" -> _check_motherboard_case(a, b)
      [] rule = "_check_gpu_case" -> _check_gpu_case(a, b)
      [] rule = "_check_gpu_power" -> _check_gpu_power(a, b)
      [] rule = "_check_power_motherboard" -> _check_power_motherboard(a, b)
      [] OTHER -> ProbeRule(a, b)

NoLocal == [kind |-> "none", v |-> NoVerdict, exc |-> ""]

\* confidence > 0.8
Threshold == 80

\* a threshold of one half
HighConfidenceAboveHalf(confidence) == confidence > 50

\* the comparison taken as "at least 0.8"
HighConfidenceInclusive(confidence) == confidence >= Threshold

HighConfidence(confidence) == confidence > Threshold

\* the result of one check: the rule's result (NoLocal when no rule ran), the
\* outcome, which path produced it and how often _check_with_llm was invoked
CheckResult(local, outcome, via, calls) ==
    [local |-> local, outcome |-> outcome, via |-> via, calls |-> calls]

\* an escalation that asks the adjudicator again when the first answer is the
\* failure verdict or an exception
EscalateWithRetry(local, component_a, component_b, response) ==
    LET first == _check_with_llm(component_a, component_b, response)
    IN  IF first.kind = "ok" /\ first.v # LlmFailed
        THEN CheckResult(local, first, "llm", 1)
        ELSE CheckResult(local, _check_with_llm(component_a, component_b, response), "llm", 2)

\* return self._check_with_llm(component_a, component_b): one invocation, its
\* outcome returned as it is
Escalate(local, component_a, component_b, response) ==
    CheckResult(local, _check_with_llm(component_a, component_b, response), "llm", 1)

check_compatibility(rs, component_a, component_b, response) ==
    LET check_type == CheckType(component_a.category, component_b.category)
    IN  IF check_type \in DOMAIN rs
        THEN LET local == ApplyRule(rs[check_type], component_a, component_b)
             IN  IF local.kind = "raise" THEN CheckResult(local, local, "rule", 0)
                 ELSE IF HighConfidence(local.v.conf)
                      THEN CheckResult(local, local, "rule", 0)
                      ELSE Escalate(local, component_a, component_b, response)
        ELSE Escalate(NoLocal, component_a, component_b, response)

(***************************************************************************)
(* The inputs: component records and adjudicator responses.                *)
(***************************************************************************)
s_LGA_1700 == <<"L", "G", "A", " ", "1", "7", "0", "0">>
s_lga1700 == <<"l", "g", "a", "1", "7", "0", "0">>
s_AM5 == <<"A", "M", "5">>
s_dashes == <<"-", "-">>
s_DDR4_DDR5 == <<"D", "D", "R", "4", ",", " ", "D", "D", "R", "5">>
s_DDR5 == <<"D", "D", "R", "5">>
s_ddr3 == <<"d", "d", "r", "3">>
s_na == <<"n", "/", "a">>
s_ATX == <<"A", "T", "X">>
s_ITX == <<"I", "T", "X">>
s_ATX_ITX == <<"A", "T", "X", ",", " ", "I", "T", "X">>
s_itx == <<"i", "t", "x">>
s_24pin == <<"2", "4", "-", "p", "i", "n">>
s_24PIN == <<"2", "4", "-", "P", "I", "N">>
s_20pin == <<"2", "0", "-", "p", "i", "n">>
s_300mm == <<"3", "0", "0", "m", "m">>
s_350mm == <<"3", "5", "0", "m", "m">>
s_max_280 == <<"m", "a", "x", " ", "2", "8", "0">>
s_650W == <<"6", "5", "0", "W">>
s_750W == <<"7", "5", "0", "W">>
s_abc == <<"a", "b", "c">>
s_1000W == <<"1", "0", "0", "0", "W">>

Cpus ==
    { Component(c_cpu, AllTop, "socket" :> Str(s_LGA_1700)),
      Component(c_cpu, AllTop, "socket" :> Str(s_AM5)),
      Component(c_cpu, AllTop, EmptySpecs),
      Component(c_cpu, AllTop, "socket" :> Str(s_dashes)),
      Component(c_cpu, AllTop, "socket" :> Num(1700)),
      Component(c_cpu, {}, EmptySpecs) }

Motherboards ==
    { Component(c_motherboard, AllTop,
          ("socket" :> Str(s_lga1700)) @@ ("memory_support" :> Str(s_DDR4_DDR5))
          @@ ("form_factor" :> Str(s_ATX)) @@ ("power_connector" :> Str(s_24pin))),
      Component(c_motherboard, AllTop, EmptySpecs),
      Component(c_motherboard, AllTop,
          ("socket" :> Num(1700)) @@ ("memory_support" :> Str(s_na))
          @@ ("form_factor" :> Str(s_ITX)) @@ ("power_connector" :> Num(24))) }

Rams ==
    { Component(c_ram, AllTop, "memory_type" :> Str(s_DDR5)),
      Component(c_ram, AllTop, "memory_type" :> Str(s_ddr3)),
      Component(c_ram, AllTop, EmptySpecs) }

Cases ==
    { Component(c_case, AllTop,
          ("supported_form_factors" :> Str(s_ATX_ITX)) @@ ("max_gpu_length" :> Str(s_350mm))),
      Component(c_case, AllTop,
          ("supported_form_factors" :> Str(s_itx)) @@ ("max_gpu_length" :> Str(s_max_280))),
      Component(c_case, AllTop, "max_gpu_length" :> Num(300)),
      Component(c_case, AllTop, EmptySpecs) }

Gpus ==
    { Component(c_gpu, AllTop,
          ("length" :> Str(s_300mm)) @@ ("recommended_psu" :> Num(650))
          @@ ("power_connectors" :> Num(2))),
      Component(c_gpu, AllTop,
          ("recommended_psu" :> Str(s_650W)) @@ ("power_connectors" :> Num(2))),
      Component(c_gpu, AllTop,
          ("length" :> Str(s_na)) @@ ("recommended_psu" :> Str(s_abc))
          @@ ("power_connectors" :> Num(2))),
      Component(c_gpu, AllTop, "recommended_psu" :> Num(650)) }

PowerSpecs ==
    ("output_power" :> Num(750)) @@ ("pcie_connectors" :> Num(2))
    @@ ("motherboard_connector" :> Str(s_24PIN))

Powers ==
    { Component(c_power, AllTop, PowerSpecs),
      Component(c_power, AllTop,
          ("output_power" :> Str(s_750W)) @@ ("pcie_connectors" :> Num(1))
          @@ ("motherboard_connector" :> Str(s_20pin))),
      Component(c_power, AllTop,
          ("output_power" :> Num(550)) @@ ("pcie_connectors" :> Num(2))),
      Component(c_power, AllTop,
          ("output_power" :> Str(s_1000W)) @@ ("pcie_connectors" :> Num(2))),
      Component(c_power, AllTop, EmptySpecs) }

Psus == { Component(c_psu, AllTop, PowerSpecs) }

Coolings == { Component(c_cooling, AllTop, EmptySpecs) }

Components ==
    Cpus \cup Motherboards \cup Rams \cup Cases \cup Gpus \cup Powers \cup Psus \cup Coolings

\* records for the registered probe rule, around the threshold
ProbeComponents ==
    { Component(c_probe, AllTop, "confidence" :> Num(n)) : n \in {50, 79, 80, 81, 100} }

\* what the adjudicator may answer: the stand-in text, another verdict, text
\* that is no JSON, JSON that is a list, an object without "reason", and an
\* object whose compatible is null
Responses ==
    { simulated_llm_output,
      Response(TRUE, TRUE, VerdictKeys, "false", Reason("llm_no", <<>>), 95),
      Response(FALSE, FALSE, {}, "none", Reason("", <<>>), 0),
      Response(TRUE, FALSE, {}, "none", Reason("", <<>>), 0),
      Response(TRUE, TRUE, {"compatible", "confidence"}, "true", Reason("", <<>>), 70),
      Response(TRUE, TRUE, VerdictKeys, "none", Reason("llm_unsure", <<>>), 50) }

(***************************************************************************)
(* The hardware query tool (querytools.py).  A specs mapping is a function *)
(* from keys (strings) to values: numbers, floats (in tenths), strings,    *)
(* null and nested mappings.                                               *)
(***************************************************************************)
\* a JSON float with one decimal, held in tenths
Flt(tenths) == [t |-> "float", n |-> tenths, s |-> <<>>]

\* JSON null
Null == [t |-> "null", n |-> 0, s |-> <<>>]

\* a nested JSON object
Map(m) == [t |-> "map", n |-> 0, s |-> <<>>, m |-> m]

\* a row of the hardware table, specs already parsed by json.loads
Item(category, brand, price, specs) ==
    [category |-> category, brand |-> brand, price |-> price, specs |-> specs]

\* a number as a mantissa and a count of decimals: num / 10^scale
Parsed(ok, num, scale) == [ok |-> ok, num |-> num, scale |-> scale]

NotParsed == Parsed(FALSE, 0, 0)

RECURSIVE Pow10(_)
Pow10(k) == IF k = 0 THEN 1 ELSE 10 * Pow10(k - 1)

\* s.strip(), for the blanks float() ignores
RECURSIVE Strip(_)
Strip(s) ==
    IF Len(s) > 0 /\ s[1] = " " THEN Strip(Tail(s))
    ELSE IF Len(s) > 0 /\ s[Len(s)] = " " THEN Strip(SubSeq(s, 1, Len(s) - 1))
    ELSE s

AllDigits(d) == \A i \in 1..Len(d) : IsDigit(d[i])

\* the position of the first "." of s, 0 when there is none
RECURSIVE DotAt(_, _)
DotAt(s, i) ==
    IF i > Len(s) THEN 0 ELSE IF s[i] = "." THEN i ELSE DotAt(s, i + 1)

\* float() of an unsigned literal: digits, digits.digits, digits. or .digits
ParseUnsigned(u) ==
    LET d == DotAt(u, 1)
        whole == IF d = 0 THEN u ELSE SubSeq(u, 1, d - 1)
        frac == IF d = 0 THEN <<>> ELSE SubSeq(u, d + 1, Len(u))
    IN  IF AllDigits(whole) /\ AllDigits(frac) /\ Len(whole) + Len(frac) > 0
        THEN Parsed(TRUE, IntOfDigits(whole \o frac), Len(frac))
        ELSE NotParsed

\* float(s) for a string: blanks stripped, an optional sign, a decimal literal;
\* anything else is a ValueError (exponents, inf, nan and digit-group
\* underscores do not occur in the inputs)
ParseFloat(s) ==
    LET u == Strip(s)
    IN  IF Len(u) > 0 /\ u[1] \in {"-", "+"}
        THEN LET r == ParseUnsigned(Tail(u))
             IN  IF u[1] = "-" THEN Parsed(r.ok, 0 - r.num, r.scale) ELSE r
        ELSE ParseUnsigned(u)

\* float(v) for a JSON value: a TypeError for null and for a mapping
ToFloat(v) ==
    CASE v.t = "num" -> Parsed(TRUE, v.n, 0)
      [] v.t = "float" -> Parsed(TRUE, v.n, 1)
      [] v.t = "str" -> ParseFloat(v.s)
      [] OTHER -> NotParsed

\* the sign of a - b for two parsed numbers
Compare(a, b) ==
    LET x == a.num * Pow10(b.scale)
        y == b.num * Pow10(a.scale)
    IN  IF x < y THEN -1 ELSE IF x > y THEN 1 ELSE 0

\* str(n) for a natural number
RECURSIVE NatStr(_)
NatStr(n) ==
    IF n < 10 THEN <<Ascii[CodeOf["0"] + n]>>
    ELSE NatStr(n \div 10) \o <<Ascii[CodeOf["0"] + (n % 10)]>>

\* str(n) for an int
IntStr(n) == IF n < 0 THEN <<"-">> \o NatStr(0 - n) ELSE NatStr(n)

\* str(x) for a float held in tenths: 6.0 is "6.0"
FloatStr(tenths) ==
    LET a == IF tenths < 0 THEN 0 - tenths ELSE tenths
    IN  (IF tenths < 0 THEN <<"-">> ELSE <<>>)
        \o NatStr(a \div 10) \o <<".">> \o NatStr(a % 10)

\* str(v) and repr(v): a string is quoted inside a mapping's repr; a mapping
\* prints its entries (in insertion order, which only matters beyond one key)
RECURSIVE StrOf(_)
RECURSIVE Repr(_)
RECURSIVE MapStr(_)
MapStr(m) ==
    IF DOMAIN m = {} THEN <<>>
    ELSE LET k == CHOOSE x \in DOMAIN m : TRUE
             rest == [x \in DOMAIN m \ {k} |-> m[x]]
         IN  <<"'">> \o k \o <<"'", ":", " ">> \o Repr(m[k])
             \o (IF DOMAIN rest = {} THEN <<>> ELSE <<",", " ">> \o MapStr(rest))

Repr(v) == IF v.t = "str" THEN <<"'">> \o v.s \o <<"'">> ELSE StrOf(v)

StrOf(v) ==
    CASE v.t = "num" -> IntStr(v.n)
      [] v.t = "float" -> FloatStr(v.n)
      [] v.t = "str" -> v.s
      [] v.t = "null" -> <<"N", "o", "n", "e">>
      [] OTHER -> <<"{">> \o MapStr(v.m) \o <<"}">>

\* one branch of _value_matches: float(filter_value[k:]), then float(actual)
\* and the comparison; a ValueError or TypeError gives False
Compared(actual_value, rest, holds(_)) ==
    LET threshold == ParseFloat(rest)
        actual == ToFloat(actual_value)
    IN  threshold.ok /\ actual.ok /\ holds(Compare(actual, threshold))

\* the branches with the one-character operators tried first
_value_matches_short_first(actual_value, filter_value) ==
    IF IsStr(filter_value) /\ StartsWith(filter_value.s, <<">">>)
    THEN Compared(actual_value, SubSeq(filter_value.s, 2, Len(filter_value.s)),
                  LAMBDA c : c > 0)
    ELSE IF IsStr(filter_value) /\ StartsWith(filter_value.s, <<"<">>)
    THEN Compared(actual_value, SubSeq(filter_value.s, 2, Len(filter_value.s)),
                  LAMBDA c : c < 0)
    ELSE StrOf(actual_value) = StrOf(filter_value)

_value_matches(actual_value, filter_value) ==
    IF IsStr(filter_value) /\ StartsWith(filter_value.s, <<">", "=">>)
    THEN Compared(actual_value, SubSeq(filter_value.s, 3, Len(filter_value.s)),
                  LAMBDA c : c >= 0)
    ELSE IF IsStr(filter_value) /\ StartsWith(filter_value.s, <<"<", "=">>)
    THEN Compared(actual_value, SubSeq(filter_value.s, 3, Len(filter_value.s)),
                  LAMBDA c : c <= 0)
    ELSE IF IsStr(filter_value) /\ StartsWith(filter_value.s, <<">">>)
    THEN Compared(actual_value, SubSeq(filter_value.s, 2, Len(filter_value.s)),
                  LAMBDA c : c > 0)
    ELSE IF IsStr(filter_value) /\ StartsWith(filter_value.s, <<"<">>)
    THEN Compared(actual_value, SubSeq(filter_value.s, 2, Len(filter_value.s)),
                  LAMBDA c : c < 0)
    ELSE StrOf(actual_value) = StrOf(filter_value)

\* one entry of the filters dict
Filter(key, value) == [key |-> key, value |-> value]

k_brand == <<"b", "r", "a", "n", "d">>
k_min_price == <<"m", "i", "n", "_", "p", "r", "i", "c", "e">>
k_max_price == <<"m", "a", "x", "_", "p", "r", "i", "c", "e">>

\* the keys _apply_spec_filters skips
CoarseKeys == {k_brand, k_min_price, k_max_price}

\* the keys of a filters dict
FilterKeys(filters) == {filters[i].key : i \in 1..Len(filters)}

\* filters[key]
FilterValue(filters, key) ==
    filters[CHOOSE i \in 1..Len(filters) : filters[i].key = key].value

\* key.split(".")
RECURSIVE Split(_)
Split(key) ==
    LET d == DotAt(key, 1)
    IN  IF d = 0 THEN <<key>>
        ELSE <<SubSeq(key, 1, d - 1)>> \o Split(SubSeq(key, d + 1, Len(key)))

Resolved(kind, v) == [kind |-> kind, v |-> v]

\* the loop over the parts of a dotted key: "part in current_value" is a key
\* test on a mapping, a substring test on a string (and indexing the string
\* with it is then a TypeError), and a TypeError on a number or null
RECURSIVE Descend(_, _)
Descend(current_value, parts) ==
    IF Len(parts) = 0 THEN Resolved("value", current_value)
    ELSE LET part == Head(parts)
         IN  CASE current_value.t = "map" ->
                     IF part \in DOMAIN current_value.m
                     THEN Descend(current_value.m[part], Tail(parts))
                     ELSE Resolved("none", Null)
               [] current_value.t = "str" ->
                     IF Contains(part, current_value.s)
                     THEN Resolved("raise", Null)
                     ELSE Resolved("none", Null)
               [] OTHER -> Resolved("raise", Null)

\* the loop over filters.items() for one item: "match", "nomatch" (the break)
\* or "raise"
RECURSIVE ItemMatches(_, _)
ItemMatches(item, filters) ==
    IF Len(filters) = 0 THEN "match"
    ELSE LET key == filters[1].key
             value == filters[1].value
         IN  IF key \in CoarseKeys THEN ItemMatches(item, Tail(filters))
             ELSE IF Contains(<<".">>, key)
             THEN LET r == Descend(Map(item.specs), Split(key))
                  IN  IF r.kind = "raise" THEN "raise"
                      ELSE IF r.kind = "none" \/ r.v.t = "null" THEN "nomatch"
                      ELSE IF ~_value_matches(r.v, value) THEN "nomatch"
                      ELSE ItemMatches(item, Tail(filters))
             ELSE IF key \in DOMAIN item.specs
                  THEN IF ~_value_matches(item.specs[key], value) THEN "nomatch"
                       ELSE ItemMatches(item, Tail(filters))
                  ELSE "nomatch"

\* a call that returned the list items
Listed(items) == [kind |-> "ok", items |-> items, exc |-> ""]

\* a call that raised exc
Failed(exc) == [kind |-> "raise", items |-> <<>>, exc |-> exc]

\* a filter that removes the rejected items from the list it iterates over: the
\* item after a removed one is never inspected and stays
RECURSIVE _apply_spec_filters_removing_in_place(_, _)
_apply_spec_filters_removing_in_place(items, filters) ==
    IF Len(items) = 0 THEN Listed(<<>>)
    ELSE LET m == ItemMatches(items[1], filters)
         IN  IF m = "raise" THEN Failed("TypeError")
             ELSE IF m = "match"
             THEN LET rest == _apply_spec_filters_removing_in_place(Tail(items), filters)
                  IN  IF rest.kind = "raise" THEN rest
                      ELSE Listed(<<items[1]>> \o rest.items)
             ELSE IF Len(items) = 1 THEN Listed(<<>>)
             ELSE LET rest == _apply_spec_filters_removing_in_place(Tail(Tail(items)), filters)
                  IN  IF rest.kind = "raise" THEN rest
                      ELSE Listed(<<items[2]>> \o rest.items)

\* the loop over items: the first item that raises ends the call
RECURSIVE _apply_spec_filters(_, _)
_apply_spec_filters(items, filters) ==
    IF Len(items) = 0 THEN Listed(<<>>)
    ELSE LET m == ItemMatches(items[1], filters)
         IN  IF m = "raise" THEN Failed("TypeError")
             ELSE LET rest == _apply_spec_filters(Tail(items), filters)
                  IN  IF rest.kind = "raise" THEN rest
                      ELSE IF m = "match" THEN Listed(<<items[1]>> \o rest.items)
                      ELSE rest

\* SQL: brand = ? (a TEXT column)
SqlBrandIs(brand, param) == brand = StrOf(param)

\* SQL: price >= ? and price <= ? (a REAL column): NULL compares to nothing, a
\* number sorts before text that is no number
SqlPriceAtLeast(price, param) ==
    /\ price.t # "null"
    /\ ToFloat(param).ok
    /\ Compare(ToFloat(price), ToFloat(param)) >= 0

\* price < ? in place of price <= ?
SqlPriceBelow(price, param) ==
    /\ price.t # "null"
    /\ (ToFloat(param).ok => Compare(ToFloat(price), ToFloat(param)) < 0)

SqlPriceAtMost(price, param) ==
    /\ price.t # "null"
    /\ (ToFloat(param).ok => Compare(ToFloat(price), ToFloat(param)) <= 0)

\* the WHERE clause query_hardware builds; category is <<>> for None or ''
RowSelected(row, category, filters) ==
    /\ (Len(category) > 0) => (row.category = category)
    /\ (k_brand \in FilterKeys(filters))
       => SqlBrandIs(row.brand, FilterValue(filters, k_brand))
    /\ (k_min_price \in FilterKeys(filters))
       => SqlPriceAtLeast(row.price, FilterValue(filters, k_min_price))
    /\ (k_max_price \in FilterKeys(filters))
       => SqlPriceAtMost(row.price, FilterValue(filters, k_max_price))

\* cursor.execute(query, params); cursor.fetchall()
Fetch(db, category, filters) ==
    SelectSeq(db, LAMBDA row : RowSelected(row, category, filters))

query_hardware(db, category, filters) ==
    LET items == Fetch(db, category, filters)
    IN  IF Len(filters) > 0 THEN _apply_spec_filters(items, filters)
        ELSE Listed(items)

(***************************************************************************)
(* The inputs of the query tool: tables, categories, filters, and values   *)
(* for _value_matches.                                                     *)
(***************************************************************************)
k_cores == <<"c", "o", "r", "e", "s">>
k_b == <<"b">>
k_s == <<"s">>
k_t == <<"t">>
k_b_s == <<"b", ".", "s">>
s_Intel == <<"I", "n", "t", "e", "l">>
s_AMD == <<"A", "M", "D">>
s_6 == <<"6">>
s_xsy == <<"x", "s", "y">>
s_xy == <<"x", "y">>
s_ge6 == <<">", "=", "6">>
s_gt5 == <<">", "5">>

\* the hardware table, in rowid order
Catalog ==
    << Item(c_cpu, s_Intel, Num(1500),
            (k_cores :> Num(8)) @@ (k_b :> Map(k_s :> Num(7)))),
       Item(c_cpu, s_AMD, Null,
            (k_cores :> Str(s_6)) @@ (k_b :> Num(5))),
       Item(c_gpu, s_Intel, Num(900), k_b :> Str(s_xsy)),
       Item(c_cpu, s_Intel, Num(1200),
            (k_cores :> Num(4)) @@ (k_b :> Map(k_t :> Num(1)))),
       Item(c_gpu, s_AMD, Num(2000),
            (k_cores :> Str(s_na)) @@ (k_b :> Str(s_xy))) >>

\* the rows of the catalog that mask keeps, in order
Pick(mask) ==
    LET F[i \in 0..Len(Catalog)] ==
            IF i = 0 THEN <<>>
            ELSE IF mask[i] THEN Append(F[i - 1], Catalog[i]) ELSE F[i - 1]
    IN  F[Len(Catalog)]

FilterPairs ==
    { Filter(k_brand, Str(s_Intel)),
      Filter(k_min_price, Num(1000)),
      Filter(k_max_price, Num(1500)),
      Filter(k_cores, Str(s_ge6)),
      Filter(k_cores, Num(8)),
      Filter(k_b_s, Str(s_gt5)),
      Filter(k_b_s, Num(1)) }

\* the sequences over S of length at most n
SeqsUpTo(S, n) == UNION {[1..k -> S] : k \in 0..n}

\* the tables the database may hold: the catalog with any rows missing
Tables == {Pick(mask) : mask \in [1..Len(Catalog) -> BOOLEAN]}

\* filters dicts: no key twice
FilterDicts ==
    { f \in SeqsUpTo(FilterPairs, MaxFilters) :
        \A i, j \in 1..Len(f) : i # j => f[i].key # f[j].key }

\* None and two categories
Categories == {<<>>, c_cpu, c_gpu}

Actuals ==
    { Num(6), Num(7), Num(0 - 3), Flt(60), Flt(65),
      Str(s_6), Str(<<" ", "7", ".", "5", " ">>), Str(<<"6", ".", "0">>),
      Str(s_na), Str(s_650W), Str(<<>>), Null, Map(k_s :> Num(1)) }

FilterValues ==
    { Str(s_ge6), Str(<<"<", "=", "6">>), Str(<<">", "6">>), Str(<<"<", "6", ".", "5">>),
      Str(<<">", "=", " ", "6">>), Str(<<">", "=", "a", "b", "c">>), Str(<<"<">>),
      Str(<<"=", "6">>), Num(6), Flt(60), Str(s_6), Str(<<"6", ".", "0">>),
      Str(s_na), Str(<<"N", "o", "n", "e">>),
      Str(<<"{", "'", "s", "'", ":", " ", "1", "}">>) }

(***************************************************************************)
(* calculate_power_consumption.  Wattages are held in thousandths of a     *)
(* watt and computed exactly, where Python computes in binary floating     *)
(* point (200 * 1.15 is 229.99999999999997 there).  The two can differ     *)
(* only when an exact value lies on a rounding tie (x.5) or on the 600 W   *)
(* threshold; on every configuration of Configs the results were compared  *)
(* with those of the Python function and are the same.                     *)
(***************************************************************************)
\* a component dict of config_list: fields is the set of the keys "specs" and
\* "model" it has; model and specs are read only when present
Part(category, fields, model, specs) ==
    [category |-> category, fields |-> fields, model |-> model, specs |-> specs]

c_ssd == <<"s", "s", "d">>
c_hdd == <<"h", "d", "d">>
c_other == <<"o", "t", "h", "e", "r">>

\* the table of per-unit wattages, in the order of the dict
COMPONENT_POWER_ESTIMATES ==
    << [comp_type |-> c_motherboard, estimate |-> 30],
       [comp_type |-> c_ram, estimate |-> 5],
       [comp_type |-> c_ssd, estimate |-> 5],
       [comp_type |-> c_hdd, estimate |-> 10],
       [comp_type |-> c_cooling, estimate |-> 10],
       [comp_type |-> c_other, estimate |-> 30] >>

\* a wattage that was computed, and an exception in its place
Power(mw) == [kind |-> "ok", mw |-> mw, exc |-> ""]

PowerRaised(exc) == [kind |-> "raise", mw |-> 0, exc |-> exc]

\* an int or float as thousandths
MilliOf(v) == IF v.t = "num" THEN v.n * 1000 ELSE v.n * 100

\* value * factor for factor = pct / 100; anything but a number times a float
\* is a TypeError
Times(v, pct) ==
    IF v.t \in {"num", "float"} THEN Power((MilliOf(v) * pct) \div 100)
    ELSE PowerRaised("TypeError")

\* round(num / den) for num >= 0: halves go to the even neighbour
RoundHalfEven(num, den) ==
    LET q == num \div den
        r == num % den
    IN  IF 2 * r < den THEN q
        ELSE IF 2 * r > den THEN q + 1
        ELSE IF q % 2 = 0 THEN q ELSE q + 1

\* component_counts[comp_type], 0 when the key is absent
component_counts(config_list, comp_type) ==
    Cardinality({i \in 1..Len(config_list) : config_list[i].category = comp_type})

\* the components of a category, in order
OfCategory(config_list, category) ==
    SelectSeq(config_list, LAMBDA c : c.category = category)

\* lines 33-39: the first cpu; a non-cpu is never passed
CpuPower(cpu) ==
    IF "specs" \notin cpu.fields THEN PowerRaised("KeyError")
    ELSE Times(Get(cpu.specs, "tdp", Num(65)), 120)

m_rtx_4090 == <<"r", "t", "x", " ", "4", "0", "9", "0">>
m_rx_7900_xtx == <<"r", "x", " ", "7", "9", "0", "0", " ", "x", "t", "x">>
m_rtx_4080 == <<"r", "t", "x", " ", "4", "0", "8", "0">>
m_rx_7900_xt == <<"r", "x", " ", "7", "9", "0", "0", " ", "x", "t">>
m_rtx_4070 == <<"r", "t", "x", " ", "4", "0", "7", "0">>
m_rx_7800_xt == <<"r", "x", " ", "7", "8", "0", "0", " ", "x", "t">>
m_rtx_4060 == <<"r", "t", "x", " ", "4", "0", "6", "0">>
m_rx_7700_xt == <<"r", "x", " ", "7", "7", "0", "0", " ", "x", "t">>

\* lines 61-71: the wattage by the model name
PowerByModel(gpu_model) ==
    IF Contains(m_rtx_4090, gpu_model) \/ Contains(m_rx_7900_xtx, gpu_model) THEN 450
    ELSE IF Contains(m_rtx_4080, gpu_model) \/ Contains(m_rx_7900_xt, gpu_model) THEN 320
    ELSE IF Contains(m_rtx_4070, gpu_model) \/ Contains(m_rx_7800_xt, gpu_model) THEN 200
    ELSE IF Contains(m_rtx_4060, gpu_model) \/ Contains(m_rx_7700_xt, gpu_model) THEN 160
    ELSE 150

\* lines 45-71: gpu_power before the peak allowance, as a value
GpuBase(gpu) ==
    IF "specs" \notin gpu.fields THEN [kind |-> "raise", exc |-> "KeyError", v |-> Null]
    ELSE IF "tdp" \in DOMAIN gpu.specs
    THEN [kind |-> "ok", exc |-> "", v |-> gpu.specs["tdp"]]
    ELSE IF "recommended_psu" \in DOMAIN gpu.specs
    THEN LET match == SearchDigits(StrOf(gpu.specs["recommended_psu"]))
         IN  IF Len(match) > 0
             THEN [kind |-> "ok", exc |-> "", v |-> Flt(IntOfDigits(match) * 4)]
             ELSE [kind |-> "ok", exc |-> "", v |-> Num(150)]
    ELSE IF "model" \notin gpu.fields THEN [kind |-> "raise", exc |-> "KeyError", v |-> Null]
    ELSE IF ~IsStr(gpu.model) THEN [kind |-> "raise", exc |-> "AttributeError", v |-> Null]
    ELSE [kind |-> "ok", exc |-> "", v |-> Num(PowerByModel(Lower(gpu.model.s)))]

\* lines 43-76 for one gpu: the wattage with the 15% allowance; the breakdown
\* key needs gpu['model']
GpuPower(gpu) ==
    LET base == GpuBase(gpu)
    IN  IF base.kind = "raise" THEN PowerRaised(base.exc)
        ELSE LET gpu_power == Times(base.v, 115)
             IN  IF gpu_power.kind = "raise" THEN gpu_power
                 ELSE IF "model" \notin gpu.fields THEN PowerRaised("KeyError")
                 ELSE gpu_power

\* the returned dict; total_power is the unrounded sum
Estimate(total_power, recommended, breakdown) ==
    [kind |-> "ok", exc |-> "", total_power |-> total_power,
     total_power_estimate |-> RoundHalfEven(total_power, 1000),
     recommended_psu_wattage |-> recommended,
     component_breakdown |-> breakdown]

\* the call raised exc
EstimateRaised(exc) ==
    [kind |-> "raise", exc |-> exc, total_power |-> 0, total_power_estimate |-> 0,
     recommended_psu_wattage |-> 0, component_breakdown |-> <<>>]

\* total_power and component_breakdown so far
Running(total_power, breakdown) ==
    [kind |-> "ok", exc |-> "", total_power |-> total_power, breakdown |-> breakdown]

RunningRaised(exc) ==
    [kind |-> "raise", exc |-> exc, total_power |-> 0, breakdown |-> <<>>]

\* component_breakdown[key] += power where the key is already there
PutAccumulating(breakdown, key, power) ==
    [k \in DOMAIN breakdown \cup {key} |->
        IF k # key THEN breakdown[k]
        ELSE IF key \in DOMAIN breakdown THEN breakdown[key] + power ELSE power]

\* component_breakdown[key] = power
Put(breakdown, key, power) ==
    [k \in DOMAIN breakdown \cup {key} |-> IF k = key THEN power ELSE breakdown[k]]

\* total_power += power; component_breakdown[key] = power
Add(acc, key, power) == Running(acc.total_power + power, Put(acc.breakdown, key, power))

\* f"gpu_{gpu['model']}"
GpuKey(gpu) == <<"g", "p", "u", "_">> \o StrOf(gpu.model)

\* lines 32-39
CpuStage(config_list, acc) ==
    LET cpu_components == OfCategory(config_list, c_cpu)
    IN  IF Len(cpu_components) = 0 THEN acc
        ELSE LET cpu_power == CpuPower(cpu_components[1])
             IN  IF cpu_power.kind = "raise" THEN RunningRaised(cpu_power.exc)
                 ELSE Add(acc, c_cpu, cpu_power.mw)

\* lines 43-76: the first gpu that raises ends the call
RECURSIVE GpuStage(_, _)
GpuStage(gpu_components, acc) ==
    IF acc.kind = "raise" \/ Len(gpu_components) = 0 THEN acc
    ELSE LET gpu_power == GpuPower(gpu_components[1])
         IN  IF gpu_power.kind = "raise" THEN RunningRaised(gpu_power.exc)
             ELSE GpuStage(Tail(gpu_components),
                           Add(acc, GpuKey(gpu_components[1]), gpu_power.mw))

\* lines 79-84, from entry i of the table on
RECURSIVE TableStage(_, _, _)
TableStage(config_list, i, acc) ==
    IF acc.kind = "raise" \/ i > Len(COMPONENT_POWER_ESTIMATES) THEN acc
    ELSE LET comp_type == COMPONENT_POWER_ESTIMATES[i].comp_type
             count == component_counts(config_list, comp_type)
         IN  IF count > 0
             THEN TableStage(config_list, i + 1,
                     Add(acc, comp_type, COMPONENT_POWER_ESTIMATES[i].estimate * count * 1000))
             ELSE TableStage(config_list, i + 1, acc)

common_psu_wattages == <<450, 550, 650, 750, 850, 1000, 1200, 1500>>

\* safety_margin in tenths
safety_margin(total_power) == IF total_power > 600000 THEN 13 ELSE 12

\* round(total_power * safety_margin), in watts
RoundedDemand(total_power) ==
    RoundHalfEven(total_power * safety_margin(total_power), 10000)

\* lines 93-103 without the else of the for loop: above the list the rounded
\* demand is returned as it is
recommended_psu_without_else(total_power) ==
    LET demand == RoundedDemand(total_power)
        fits == {i \in 1..Len(common_psu_wattages) : common_psu_wattages[i] >= demand}
    IN  IF fits # {}
        THEN common_psu_wattages[CHOOSE i \in fits : \A j \in fits : i <= j]
        ELSE demand

\* lines 93-103
recommended_psu(total_power) ==
    LET demand == RoundedDemand(total_power)
        fits == {i \in 1..Len(common_psu_wattages) : common_psu_wattages[i] >= demand}
    IN  IF fits # {}
        THEN common_psu_wattages[CHOOSE i \in fits : \A j \in fits : i <= j]
        ELSE RoundHalfEven(demand, 100) * 100

calculate_power_consumption(config_list) ==
    LET acc == TableStage(config_list, 1,
                   GpuStage(OfCategory(config_list, c_gpu),
                       CpuStage(config_list, Running(0, <<>>))))
    IN  IF acc.kind = "raise" THEN EstimateRaised(acc.exc)
        ELSE Estimate(acc.total_power, recommended_psu(acc.total_power), acc.breakdown)

(***************************************************************************)
(* Configurations for the estimator.                                       *)
(***************************************************************************)
s_125W == <<"1", "2", "5", "W">>
s_550W == <<"5", "5", "0", "W">>
s_RTX_4090 == <<"G", "e", "F", "o", "r", "c", "e", " ", "R", "T", "X", " ", "4", "0", "9", "0">>
s_RTX_4080 == <<"R", "T", "X", " ", "4", "0", "8", "0">>
s_RX_7900_XTX == <<"R", "X", " ", "7", "9", "0", "0", " ", "X", "T", "X">>
s_Arc == <<"A", "r", "c", " ", "A", "3", "8", "0">>

cpu_65 == Part(c_cpu, {"specs"}, Null, "tdp" :> Num(65))
cpu_120 == Part(c_cpu, {"specs", "model"}, Str(s_Intel), "tdp" :> Num(120))
cpu_no_tdp == Part(c_cpu, {"specs"}, Null, EmptySpecs)
cpu_125W == Part(c_cpu, {"specs", "model"}, Str(s_Intel), "tdp" :> Str(s_125W))
cpu_bare == Part(c_cpu, {}, Null, EmptySpecs)

\* before a gpu, and two cpus in both orders
CpuLists ==
    { <<>>, <<cpu_65>>, <<cpu_120>>, <<cpu_no_tdp>>, <<cpu_125W>>, <<cpu_bare>>,
      <<cpu_65, cpu_120>>, <<cpu_120, cpu_65>> }

GpuParts ==
    { Part(c_gpu, {"specs"}, Null, "tdp" :> Num(200)),
      Part(c_gpu, {"specs", "model"}, Str(s_RTX_4080), EmptySpecs),
      Part(c_gpu, {"specs", "model"}, Str(s_RX_7900_XTX), EmptySpecs),
      Part(c_gpu, {"specs", "model"}, Str(s_Arc), "recommended_psu" :> Str(s_550W)),
      Part(c_gpu, {"specs", "model"}, Str(s_RTX_4090), "recommended_psu" :> Str(s_abc)),
      Part(c_gpu, {"specs", "model"}, Str(s_Arc), "tdp" :> Str(s_125W)),
      Part(c_gpu, {"specs", "model"}, Str(s_RTX_4090), "tdp" :> Num(400)),
      Part(c_gpu, {"specs"}, Null, EmptySpecs) }

\* a component that is only counted
Plain(category) == Part(category, {}, Null, EmptySpecs)

OtherLists ==
    { <<>>, <<Plain(c_ram), Plain(c_ssd)>>, <<Plain(c_motherboard)>>, <<Plain(c_psu)>>,
      <<Plain(c_case), Plain(c_other)>>, <<Plain(c_ram), Plain(c_ram), Plain(c_hdd)>>,
      <<Plain(c_cooling), Plain(c_motherboard), Plain(c_ram)>>,
      <<Plain(c_motherboard), Plain(c_motherboard), Plain(c_motherboard),
        Plain(c_motherboard), Plain(c_motherboard)>> }

\* the cpus, gpus and other components of a build, listed in either order
Configs ==
    { c \o g \o o : c \in CpuLists, g \in SeqsUpTo(GpuParts, MaxGpus), o \in OtherLists }
    \cup
    { o \o g \o c : c \in CpuLists, g \in SeqsUpTo(GpuParts, MaxGpus), o \in OtherLists }

(***************************************************************************)
(* What a call leaves in the dicts and lists it was passed.  Python passes *)
(* them by reference; none of the three functions assigns to a key of a    *)
(* component or to an element of a list it was given.                      *)
(***************************************************************************)
\* component_a and component_b when check_compatibility returns: the rule
\* functions and the prompt only read them (.get and [])
ComponentsAfterCheck(component_a, component_b) == <<component_a, component_b>>

\* items when _apply_spec_filters returns: matches are appended to the new list
\* filtered_items
ItemsAfterFilter(items, filters) == items

\* an estimator that stores the default tdp in the specs of a cpu
\* (specs.setdefault for specs.get)
ConfigAfterEstimateStoringDefault(config_list) ==
    [i \in 1..Len(config_list) |->
        IF /\ config_list[i].category = c_cpu
           /\ "specs" \in config_list[i].fields
           /\ "tdp" \notin DOMAIN config_list[i].specs
        THEN [config_list[i] EXCEPT !.specs = @ @@ ("tdp" :> Num(65))]
        ELSE config_list[i]]

\* config_list when calculate_power_consumption returns: counts, total and
\* breakdown are locals
ConfigAfterEstimate(config_list) == config_list

HeldPairs ==
    {pair \in Gpus \X Powers :
        "length" \in DOMAIN pair[1].specs /\ "motherboard_connector" \in DOMAIN pair[2].specs}

HeldTables == {Catalog, SubSeq(Catalog, 1, 2)}

HeldConfigs ==
    { <<cpu_no_tdp, Plain(c_ram)>>,
      <<cpu_65, Part(c_gpu, {"specs", "model"}, Str(s_RTX_4080), EmptySpecs),
        Plain(c_motherboard)>> }

(***************************************************************************)
(* The knowledge-builder pipeline.  The CSV file is the sequence of its    *)
(* data rows, each a sequence of strings; the header row, which            *)
(* write_video_tasks writes and read_video_tasks skips, is not             *)
(* represented.  What the downloader, the transcriber and the language     *)
(* model do is an input of each pass of the loop.                          *)
(***************************************************************************)
\* None in a field that holds a path or a string
None == [some |-> FALSE, dir |-> "", name |-> <<>>]

\* a path dir / name
Path(dir, name) == [some |-> TRUE, dir |-> dir, name |-> name]

\* a string in a field that may hold None
Some(s) == [some |-> TRUE, dir |-> "", name |-> s]

\* the dataclass: the three paths default to None
VideoTask(url, extracted, enhanced, filename) ==
    [url |-> url, extracted |-> extracted, enhanced |-> enhanced, filename |-> filename,
     audio_path |-> None, transcript_path |-> None, enhanced_path |-> None]

\* text.lower() in ('true', '1', 'yes', 'y')
IsTrueText(text) ==
    Lower(text) \in {<<"t", "r", "u", "e">>, <<"1">>, <<"y", "e", "s">>, <<"y">>}

\* the VideoTask built from one row
ReadRow(row) ==
    VideoTask(row[1],
              IF Len(row) > 1 THEN IsTrueText(row[2]) ELSE FALSE,
              IF Len(row) > 2 THEN IsTrueText(row[3]) ELSE FALSE,
              IF Len(row) > 3 THEN Some(row[4]) ELSE None)

\* rows that are empty are passed over
read_video_tasks(rows) ==
    LET kept == SelectSeq(rows, LAMBDA row : Len(row) > 0)
    IN  [k \in 1..Len(kept) |-> ReadRow(kept[k])]

\* str(b), as csv.writer writes a bool
StrOfBool(b) == IF b THEN <<"T", "r", "u", "e">> ELSE <<"F", "a", "l", "s", "e">>

\* [task.url, task.extracted, task.enhanced, task.filename or '']
WriteRow(task) ==
    <<task.url, StrOfBool(task.extracted), StrOfBool(task.enhanced),
      IF task.filename.some THEN task.filename.name ELSE <<>>>>

write_video_tasks(tasks) == [k \in 1..Len(tasks) |-> WriteRow(tasks[k])]

s_mp3 == <<".", "m", "p", "3">>

s_txt == <<".", "t", "x", "t">>

\* Path.stem: the name up to its last dot
Stem(name) ==
    LET dots == {k \in 2..Len(name) : name[k] = "."}
    IN  IF dots = {} THEN name
        ELSE SubSeq(name, 1, (CHOOSE k \in dots : \A j \in dots : j <= k) - 1)

\* download_audio(url): result "ok" is a file yt-dlp wrote, "none" a failed
\* command or no file found, "raise" an exception other than
\* CalledProcessError (yt-dlp is not installed)
download_audio(url, result) ==
    [kind |-> result,
     audio_path |-> IF result = "ok" THEN Path("audio", url \o s_mp3) ELSE None,
     filename |-> IF result = "ok" THEN Some(url \o s_mp3) ELSE None]

\* transcribe_audio(audio_path), likewise
transcribe_audio(audio_path, result) ==
    [kind |-> result,
     path |-> IF result = "ok" THEN Path("transcripts", Stem(audio_path.name) \o s_txt)
              ELSE None]

\* enhance_text(text_path): open(None) raises TypeError, and every exception
\* is caught and answered with None; generated is what OllamaClient.generate
\* returns, "text" or "none"
enhance_text(text_path, generated) ==
    IF ~text_path.some THEN None
    ELSE IF generated # "text" THEN None
    ELSE Path("enhanced", text_path.name)

\* what a pass of the loop body leaves: the tasks, the rows of the file, and
\* whether an exception has left process_videos
Pass(tasks, rows, raised) == [tasks |-> tasks, rows |-> rows, raised |-> raised]

\* lines 52-63
EnhanceStage(tasks, k, rows, generated) ==
    IF tasks[k].extracted /\ ~tasks[k].enhanced
    THEN LET enhanced_path == enhance_text(tasks[k].transcript_path, generated)
         IN  IF ~enhanced_path.some THEN Pass(tasks, rows, FALSE)
             ELSE LET enhanced == [tasks EXCEPT ![k].enhanced_path = enhanced_path,
                                                ![k].enhanced = TRUE]
                  IN  Pass(enhanced, write_video_tasks(enhanced), FALSE)
    ELSE Pass(tasks, rows, FALSE)

\* lines 24-63 for tasks[k]
LoopBody(tasks, k, rows, skip_enhanced, download, transcribe, generated) ==
    IF skip_enhanced /\ tasks[k].enhanced THEN Pass(tasks, rows, FALSE)
    ELSE IF tasks[k].extracted THEN EnhanceStage(tasks, k, rows, generated)
    ELSE LET audio == download_audio(tasks[k].url, download)
         IN  IF audio.kind = "raise" THEN Pass(tasks, rows, TRUE)
             ELSE IF ~audio.audio_path.some THEN Pass(tasks, rows, FALSE)
             ELSE LET named == [tasks EXCEPT ![k].audio_path = audio.audio_path,
                                             ![k].filename = audio.filename]
                      transcript == transcribe_audio(audio.audio_path, transcribe)
                  IN  IF transcript.kind = "raise" THEN Pass(named, rows, TRUE)
                      ELSE IF ~transcript.path.some THEN Pass(named, rows, FALSE)
                      ELSE LET extracted ==
                                   [named EXCEPT ![k].transcript_path = transcript.path,
                                                 ![k].extracted = TRUE]
                           IN  EnhanceStage(extracted, k, write_video_tasks(extracted),
                                            generated)

\* the rows a CSV file may hold before a run
s_url == <<"u", "1">>

s_True == <<"T", "r", "u", "e">>

s_False == <<"F", "a", "l", "s", "e">>

s_yes == <<"y", "e", "s">>

s_no == <<"n", "o">>

InitialRows ==
    { <<>>,
      <<s_url>>,
      <<s_url, s_False, s_False, <<>>>>,
      <<s_url, s_True, s_False, s_url \o s_mp3>>,
      <<s_url, s_yes, s_no>>,
      <<s_url, s_True, s_True, s_url \o s_mp3>>,
      <<s_url, s_False, s_True>> }

Outcomes == {"ok", "none", "raise"}

Generations == {"text", "none"}

(***************************************************************************)
(* The state machine.                                                      *)
(***************************************************************************)
NoCall == [op |-> "none"]

\* what the caller holds: the two components it has checked, the items it
\* filters, its configuration, and the path the query tool was built with
Held(components, items, config_list) ==
    [components |-> components, items |-> items, config_list |-> config_list,
     db_path |-> "../hardware.db"]

NothingHeld == Held(<<>>, <<>>, <<>>)

Init ==
    /\ rules = InitRules
    /\ pc = "idle"
    /\ call = NoCall
    /\ nChecks = 0
    /\ llmCalls = 0
    /\ csv_rows = <<>>
    /\ held = NothingHeld

\* a caller has added a rule for probe_probe to checker.rules
InitBoundary ==
    /\ rules = InitRules @@ (CheckType(c_probe, c_probe) :> "probe")
    /\ pc = "idle"
    /\ call = NoCall
    /\ nChecks = 0
    /\ llmCalls = 0
    /\ csv_rows = <<>>
    /\ held = NothingHeld

\* compatibility_checker.check_compatibility(a, b), the adjudicator answering
\* with response when it is asked
CheckOn(a, b, response) ==
    LET r == check_compatibility(rules, a, b, response)
    IN  /\ pc = "idle"
        /\ nChecks < MaxChecks
        /\ call' = [op |-> "check", a |-> a, b |-> b, response |-> response,
                    local |-> r.local, outcome |-> r.outcome, calls |-> r.calls]
        /\ nChecks' = nChecks + 1
        /\ llmCalls' = llmCalls + r.calls
        /\ pc' = "returned"
        /\ UNCHANGED <<rules, held, csv_rows>>

Check ==
    /\ pc = "idle"
    /\ \E a \in Components, b \in Components, response \in Responses :
           CheckOn(a, b, response)

CheckProbe ==
    /\ pc = "idle"
    /\ \E a \in ProbeComponents \cup Cpus, b \in ProbeComponents \cup Motherboards,
          response \in Responses :
           CheckOn(a, b, response)

\* the caller takes the result
Return ==
    /\ pc = "returned"
    /\ pc' = "idle"
    /\ call' = NoCall
    /\ UNCHANGED <<rules, nChecks, llmCalls, held, csv_rows>>

\* hardware_query.query_hardware(category, filters) over the table db
QueryOn(db, category, filters) ==
    /\ pc = "idle"
    /\ call' = [op |-> "query", db |-> db, category |-> category, filters |-> filters,
                outcome |-> query_hardware(db, category, filters)]
    /\ pc' = "returned"
    /\ UNCHANGED <<rules, nChecks, llmCalls, held, csv_rows>>

Query ==
    /\ pc = "idle"
    /\ \E db \in Tables, category \in Categories, filters \in FilterDicts :
           QueryOn(db, category, filters)

\* self._value_matches(actual_value, filter_value)
MatchOn(actual_value, filter_value) ==
    /\ pc = "idle"
    /\ call' = [op |-> "match", actual |-> actual_value, filter |-> filter_value,
                result |-> _value_matches(actual_value, filter_value)]
    /\ pc' = "returned"
    /\ UNCHANGED <<rules, nChecks, llmCalls, held, csv_rows>>

Match ==
    /\ pc = "idle"
    /\ \E actual_value \in Actuals, filter_value \in FilterValues :
           MatchOn(actual_value, filter_value)

\* calculate_power_consumption(config_list)
EstimateOn(config_list) ==
    /\ pc = "idle"
    /\ call' = [op |-> "estimate", config_list |-> config_list,
                outcome |-> calculate_power_consumption(config_list)]
    /\ pc' = "returned"
    /\ UNCHANGED <<rules, nChecks, llmCalls, held, csv_rows>>

EstimateAny ==
    /\ pc = "idle"
    /\ \E config_list \in Configs : EstimateOn(config_list)

\* the caller holds two components, a list of items and a configuration
InitFrame ==
    /\ rules = InitRules
    /\ pc = "idle"
    /\ call = NoCall
    /\ nChecks = 0
    /\ llmCalls = 0
    /\ csv_rows = <<>>
    /\ held \in {Held(pair, items, config_list) :
                    pair \in HeldPairs, items \in HeldTables, config_list \in HeldConfigs}

\* check_compatibility on the two components held
CheckHeld(response) ==
    LET a == held.components[1]
        b == held.components[2]
        r == check_compatibility(rules, a, b, response)
    IN  /\ pc = "idle"
        /\ nChecks < MaxChecks
        /\ call' = [op |-> "check", a |-> a, b |-> b, response |-> response,
                    local |-> r.local, outcome |-> r.outcome, calls |-> r.calls]
        /\ nChecks' = nChecks + 1
        /\ llmCalls' = llmCalls + r.calls
        /\ pc' = "returned"
        /\ held' = [held EXCEPT !.components = ComponentsAfterCheck(a, b)]
        /\ UNCHANGED <<rules, csv_rows>>

\* _apply_spec_filters on the items held
FilterHeld(filters) ==
    /\ pc = "idle"
    /\ call' = [op |-> "filter", items |-> held.items, filters |-> filters,
                outcome |-> _apply_spec_filters(held.items, filters)]
    /\ pc' = "returned"
    /\ held' = [held EXCEPT !.items = ItemsAfterFilter(held.items, filters)]
    /\ UNCHANGED <<rules, nChecks, llmCalls, csv_rows>>

\* calculate_power_consumption on the configuration held
EstimateHeld ==
    /\ pc = "idle"
    /\ call' = [op |-> "estimate", config_list |-> held.config_list,
                outcome |-> calculate_power_consumption(held.config_list)]
    /\ pc' = "returned"
    /\ held' = [held EXCEPT !.config_list = ConfigAfterEstimate(held.config_list)]
    /\ UNCHANGED <<rules, nChecks, llmCalls, csv_rows>>

CheckAnyHeld == pc = "idle" /\ \E response \in Responses : CheckHeld(response)

FilterAnyHeld == pc = "idle" /\ \E filters \in FilterDicts : FilterHeld(filters)

NextFrame == CheckAnyHeld \/ FilterAnyHeld \/ EstimateHeld \/ Return

SpecFrame == InitFrame /\ [][NextFrame]_vars

\* process_videos(csv_path, skip_enhanced) reads the tasks (line 17)
ProcessVideos(skip_enhanced) ==
    /\ pc = "idle"
    /\ call' = [op |-> "process", skip_enhanced |-> skip_enhanced,
                read |-> read_video_tasks(csv_rows),
                tasks |-> read_video_tasks(csv_rows),
                position |-> 1, generated |-> <<>>, raised |-> FALSE]
    /\ pc' = "processing"
    /\ UNCHANGED <<rules, nChecks, llmCalls, held, csv_rows>>

ProcessAny == \E skip_enhanced \in BOOLEAN : ProcessVideos(skip_enhanced)

\* one pass of the loop at lines 20-63; call.generated keeps what the
\* language model answered in each pass
Iterate(download, transcribe, generated) ==
    /\ pc = "processing"
    /\ call.position <= Len(call.tasks)
    /\ LET after == LoopBody(call.tasks, call.position, csv_rows, call.skip_enhanced,
                             download, transcribe, generated)
       IN  /\ csv_rows' = after.rows
           /\ call' = [call EXCEPT !.tasks = after.tasks,
                                   !.position = @ + 1,
                                   !.generated = Append(@, generated),
                                   !.raised = after.raised]
           /\ pc' = IF after.raised THEN "returned" ELSE "processing"
    /\ UNCHANGED <<rules, nChecks, llmCalls, held>>

IterateAny ==
    /\ pc = "processing"
    /\ \E download \in Outcomes, transcribe \in Outcomes, generated \in Generations :
           Iterate(download, transcribe, generated)

\* the loop is over (line 65)
Finish ==
    /\ pc = "processing"
    /\ call.position > Len(call.tasks)
    /\ pc' = "returned"
    /\ UNCHANGED <<rules, call, nChecks, llmCalls, held, csv_rows>>

\* a CSV file of at most MaxTasks rows
InitPipeline ==
    /\ rules = InitRules
    /\ pc = "idle"
    /\ call = NoCall
    /\ nChecks = 0
    /\ llmCalls = 0
    /\ held = NothingHeld
    /\ csv_rows \in SeqsUpTo(InitialRows, MaxTasks)

NextPipeline == ProcessAny \/ IterateAny \/ Finish \/ Return

NextCheck == Check \/ Return

NextQuery == Query \/ Return

NextMatch == Match \/ Return

NextBoundary == CheckProbe \/ Return

NextEstimate == EstimateAny \/ Return

Next ==
    Check \/ Query \/ Match \/ EstimateAny \/ ProcessAny \/ IterateAny \/ Finish \/ Return

Spec == Init /\ [][Next]_vars

SpecCheck == Init /\ [][NextCheck]_vars

SpecQuery == Init /\ [][NextQuery]_vars

SpecMatch == Init /\ [][NextMatch]_vars

SpecBoundary == InitBoundary /\ [][NextBoundary]_vars

SpecEstimate == Init /\ [][NextEstimate]_vars

\* a run that has started goes through its loop to the end
SpecPipeline ==
    InitPipeline /\ [][NextPipeline]_vars /\ WF_vars(IterateAny) /\ WF_vars(Finish)

(***************************************************************************)
(* Properties of check_compatibility.                                      *)
(***************************************************************************)
\* a check_compatibility call has just ended
IsCheck == pc = "returned" /\ call.op = "check"

\* the adjudicator's response is an object with compatible, reason, confidence
WellFormed(response) ==
    response.json /\ response.obj /\ VerdictKeys \subseteq response.keys

\* the verdict a well-formed response states
VerdictOf(response) ==
    Verdict(response.compatible, response.reason, response.confidence)

\* C1: when a registered rule returned a verdict, check returns that verdict
\* if and only if its confidence is strictly above 0.8 (and then without
\* asking the adjudicator); at 0.8 or below the local verdict is discarded and
\* the adjudicator's verdict is what check returns.
C1_LocalFinalIffAboveThreshold ==
    (IsCheck /\ call.local.kind = "ok") =>
        /\ (call.outcome = call.local) <=> (call.local.v.conf > 80)
        /\ (call.local.v.conf > 80) => (call.calls = 0)
        /\ (/\ call.local.v.conf <= 80
            /\ PromptOk(call.a) /\ PromptOk(call.b)
            /\ WellFormed(call.response))
           => (call.calls = 1 /\ call.outcome = Returned(VerdictOf(call.response)))

\* a rule answered with confidence exactly 0.8 and check returned the
\* adjudicator's verdict
C1_Witness ==
    /\ IsCheck
    /\ call.a.category = c_probe /\ call.b.category = c_probe
    /\ call.local.kind = "ok" /\ call.local.v.conf = 80
    /\ call.response = simulated_llm_output
    /\ call.outcome = Returned(VerdictOf(simulated_llm_output))

\* the four fields of the GPU power-supply rule are present and non-zero
FourFieldsPresent(gpu, power) ==
    /\ {"recommended_psu", "power_connectors"} \subseteq DOMAIN gpu.specs
    /\ {"output_power", "pcie_connectors"} \subseteq DOMAIN power.specs
    /\ IsNum(gpu.specs["recommended_psu"]) /\ gpu.specs["recommended_psu"].n > 0
    /\ IsNum(gpu.specs["power_connectors"]) /\ gpu.specs["power_connectors"].n > 0
    /\ IsNum(power.specs["output_power"]) /\ power.specs["output_power"].n > 0
    /\ IsNum(power.specs["pcie_connectors"]) /\ power.specs["pcie_connectors"].n > 0

\* C2: a gpu record followed by a psu record is checked by the local GPU
\* power-supply rule: with the four fields present its 0.9 verdict is final and
\* the adjudicator is not asked; a psu record followed by a motherboard record
\* is checked by the local power-connector rule.
C2_PsuCategoryUsesLocalRule ==
    /\ (IsCheck /\ call.a.category = c_gpu /\ call.b.category = c_psu
        /\ FourFieldsPresent(call.a, call.b))
       => (/\ call.local.kind = "ok" /\ call.local.v.conf = 90
           /\ call.outcome = call.local /\ call.calls = 0)
    /\ (IsCheck /\ call.a.category = c_psu /\ call.b.category = c_motherboard)
       => (call.local.kind # "none")

\* C3: whenever the adjudicator is asked and its response is not JSON, or is
\* JSON that is no object with compatible, reason and confidence, check returns
\* (false, the fixed failure reason, 0.0) and raises nothing.
C3_MalformedResponseGivesFailureVerdict ==
    (/\ IsCheck /\ call.calls >= 1
     /\ PromptOk(call.a) /\ PromptOk(call.b)
     /\ ~WellFormed(call.response))
    => (call.outcome = Returned(LlmFailed))

\* C4: check returns a verdict and raises nothing, whatever fields are absent
\* and whatever scalar type the present values have.
C4_CheckNeverRaises == IsCheck => (call.outcome.kind = "ok")

\* C5: each check invokes the adjudicator once if its check type has no
\* registered rule or its rule returned a confidence of 0.8 or less, and not at
\* all if its rule returned a confidence above 0.8; so over any sequence of
\* checks the adjudicator is invoked once per escalated check.
C5_AdjudicatorOncePerEscalation ==
    [][(pc = "idle" /\ pc' = "returned" /\ call'.op = "check") =>
          LET unregistered ==
                  CheckType(call'.a.category, call'.b.category) \notin DOMAIN rules
              low == call'.local.kind = "ok" /\ call'.local.v.conf <= 80
              high == call'.local.kind = "ok" /\ call'.local.v.conf > 80
          IN  /\ nChecks' = nChecks + 1
              /\ (unregistered \/ low) => (llmCalls' = llmCalls + 1)
              /\ high => (llmCalls' = llmCalls)]_vars

\* a check of motherboard then cpu (the reverse of a registered pair) asked the
\* adjudicator once, after an earlier check that a local rule had settled
C5_Witness ==
    /\ IsCheck
    /\ call.a.category = c_motherboard /\ call.b.category = c_cpu
    /\ call.local = NoLocal
    /\ call.calls = 1
    /\ nChecks = 2 /\ llmCalls = 1

\* a required field of the record is absent from its specs
Missing(record, key) == key \notin DOMAIN record.specs

\* a present field holds text from which no number can be read
NoNumber(record, key) ==
    /\ key \in DOMAIN record.specs
    /\ IsStr(record.specs[key])
    /\ SearchDigits(record.specs[key].s) = <<>>

\* a required field of the rule registered for the pair is missing, or
\* (for the rules that read numbers) unparseable
MissingOrUnparseable(a, b) ==
    LET check_type == CheckType(a.category, b.category)
    IN  \/ /\ check_type = CheckType(c_cpu, c_motherboard)
           /\ (Missing(a, "socket") \/ Missing(b, "socket"))
        \/ /\ check_type = CheckType(c_motherboard, c_ram)
           /\ (Missing(a, "memory_support") \/ Missing(b, "memory_type"))
        \/ /\ check_type = CheckType(c_motherboard, c_case)
           /\ (Missing(a, "form_factor") \/ Missing(b, "supported_form_factors"))
        \/ /\ check_type = CheckType(c_gpu, c_case)
           /\ \/ Missing(a, "length") \/ Missing(b, "max_gpu_length")
              \/ NoNumber(a, "length") \/ NoNumber(b, "max_gpu_length")
        \/ /\ check_type = CheckType(c_gpu, c_power)
           /\ \/ Missing(a, "recommended_psu") \/ Missing(a, "power_connectors")
              \/ Missing(b, "output_power") \/ Missing(b, "pcie_connectors")
              \/ NoNumber(a, "recommended_psu") \/ NoNumber(b, "output_power")
        \/ /\ check_type = CheckType(c_power, c_motherboard)
           /\ (Missing(a, "motherboard_connector") \/ Missing(b, "power_connector"))

\* C6: a registered rule with a required field missing or unparseable (a cpu
\* without socket against any motherboard among them) yields unknown
\* compatibility with confidence 0.5 (0.6 for the GPU power-supply rule) and
\* check escalates; no unknown local result is returned as final.
C6_IndeterminateEscalates ==
    /\ (IsCheck /\ MissingOrUnparseable(call.a, call.b))
       => (/\ call.local.kind = "ok"
           /\ call.local.v.compatible = "none"
           /\ call.local.v.conf =
                  (IF call.a.category = c_gpu /\ call.b.category = c_power THEN 60 ELSE 50)
           /\ call.calls = 1)
    /\ (IsCheck /\ call.local.kind = "ok" /\ call.local.v.compatible = "none")
       => (call.calls = 1 /\ call.outcome # call.local)

(***************************************************************************)
(* Properties of the query tool.                                           *)
(***************************************************************************)
\* a query_hardware call has just ended
IsQuery == pc = "returned" /\ call.op = "query"

\* a _value_matches call has just ended
IsMatch == pc = "returned" /\ call.op = "match"

\* every segment of the path is a key of the mapping reached so far
RECURSIVE PathPresent(_, _)
PathPresent(v, parts) ==
    \/ Len(parts) = 0
    \/ /\ v.t = "map"
       /\ Head(parts) \in DOMAIN v.m
       /\ PathPresent(v.m[Head(parts)], Tail(parts))

\* the value at a present path
RECURSIVE PathGet(_, _)
PathGet(v, parts) ==
    IF Len(parts) = 0 THEN v ELSE PathGet(v.m[Head(parts)], Tail(parts))

\* the key, dotted or not, leads to a value in the item's specs
KeyPresent(item, key) == PathPresent(Map(item.specs), Split(key))

\* the item passes the predicates on category, brand and price
PassesCoarse(item, category, filters) ==
    /\ (Len(category) > 0) => (item.category = category)
    /\ \A i \in 1..Len(filters) :
          LET key == filters[i].key
              value == filters[i].value
          IN  /\ (key = k_brand) => (item.brand = StrOf(value))
              /\ (key = k_min_price) => (item.price.t # "null" /\ item.price.n >= value.n)
              /\ (key = k_max_price) => (item.price.t # "null" /\ item.price.n <= value.n)

\* the item passes every other predicate: its value is present and matches
PassesFine(item, filters) ==
    \A i \in 1..Len(filters) :
        (filters[i].key \notin CoarseKeys)
        => /\ KeyPresent(item, filters[i].key)
           /\ _value_matches(PathGet(Map(item.specs), Split(filters[i].key)),
                             filters[i].value)

\* C7: the filter returns exactly the records that satisfy every predicate
\* (category when given, brand, min_price, max_price, and for every other key
\* a value present in specs that matches); with no predicate, all records of
\* the category.
C7_ReturnsExactlyTheSatisfyingRecords ==
    IsQuery =>
        call.outcome =
            Listed(SelectSeq(call.db,
                LAMBDA item : /\ PassesCoarse(item, call.category, call.filters)
                              /\ PassesFine(item, call.filters)))

C9_AbsentSegmentExcludesWithoutRaising ==
    IsQuery =>
        \A i \in 1..Len(call.db), j \in 1..Len(call.filters) :
            (/\ call.filters[j].key \notin CoarseKeys
             /\ ~KeyPresent(call.db[i], call.filters[j].key))
            => /\ call.outcome.kind = "ok"
               /\ \A k \in 1..Len(call.outcome.items) : call.outcome.items[k] # call.db[i]

\* the operator tokens that prefix the filter value
Tokens == {<<">", "=">>, <<"<", "=">>, <<">">>, <<"<">>}

TokensOf(filter_value) ==
    IF IsStr(filter_value) THEN {t \in Tokens : StartsWith(filter_value.s, t)} ELSE {}

\* the longest of them
TokenOf(filter_value) ==
    CHOOSE t \in TokensOf(filter_value) : \A u \in TokensOf(filter_value) : Len(u) <= Len(t)

\* actual stands in the token's relation to threshold
Related(token, actual, threshold) ==
    LET c == Compare(actual, threshold)
    IN  CASE token = <<">", "=">> -> c >= 0
          [] token = <<"<", "=">> -> c <= 0
          [] token = <<">">> -> c > 0
          [] OTHER -> c < 0

\* C10: when the filter value is a string that starts with >=, <=, > or <
\* (the two-character operators first), the value matches iff it and the
\* threshold parse as numbers and stand in that relation, a value or threshold
\* that is no number giving no match; for every other filter value the value
\* matches iff the string forms are equal.
C10_ValueMatching ==
    IsMatch =>
        /\ call.result =
              (IF TokensOf(call.filter) # {}
               THEN LET token == TokenOf(call.filter)
                        threshold == ParseFloat(SubSeq(call.filter.s, Len(token) + 1,
                                                       Len(call.filter.s)))
                        actual == ToFloat(call.actual)
                    IN  threshold.ok /\ actual.ok /\ Related(token, actual, threshold)
               ELSE StrOf(call.actual) = StrOf(call.filter))
        /\ (call.filter = Str(s_ge6) /\ call.actual = Str(<<" ", "7", ".", "5", " ">>))
           => call.result
        /\ (call.filter = Str(s_ge6) /\ call.actual \in {Str(s_650W), Null, Num(0 - 3)})
           => ~call.result
        /\ (call.filter = Num(6)) => (call.result <=> call.actual \in {Num(6), Str(s_6)})

\* the value " 7.5 " matched the filter ">=6"
C10_Witness ==
    /\ IsMatch
    /\ call.filter = Str(s_ge6)
    /\ call.actual = Str(<<" ", "7", ".", "5", " ">>)
    /\ call.result

\* C11: filtering is idempotent: filtering the already-filtered result again
\* with the same predicates returns the same records, both for the fine pass
\* over the whole table and for the result of the query.
C11_FilteringIsIdempotent ==
    IsQuery =>
        LET first == _apply_spec_filters(call.db, call.filters)
        IN  /\ (first.kind = "ok")
               => (_apply_spec_filters(first.items, call.filters) = first)
            /\ (call.outcome.kind = "ok")
               => (_apply_spec_filters(call.outcome.items, call.filters) = call.outcome)

\* a fine predicate kept some records of the table and rejected others
C11_Witness ==
    /\ IsQuery
    /\ FilterKeys(call.filters) \ CoarseKeys # {}
    /\ call.outcome.kind = "ok"
    /\ Len(call.outcome.items) > 0
    /\ LET first == _apply_spec_filters(call.db, call.filters)
       IN  first.kind = "ok" /\ Len(first.items) > 0 /\ Len(first.items) < Len(call.db)

(***************************************************************************)
(* Properties of the estimator.                                            *)
(***************************************************************************)
\* a calculate_power_consumption call has just ended
IsEstimate == pc = "returned" /\ call.op = "estimate"

\* f[1] + ... + f[n]
RECURSIVE SumTo(_, _)
SumTo(f, n) == IF n = 0 THEN 0 ELSE f[n] + SumTo(f, n - 1)

\* the categories of the per-unit table, the catch-all aside
TableCategories == {c_motherboard, c_ram, c_ssd, c_hdd, c_cooling}

\* the per-unit wattage of a table category
PerUnit(category) ==
    CASE category = c_motherboard -> 30
      [] category = c_ram -> 5
      [] category = c_ssd -> 5
      [] category = c_hdd -> 10
      [] category = c_cooling -> 10
      [] OTHER -> 30

\* the three tiers as described: tdp as-is, else the number in recommended_psu
\* times 0.40, else (also when that number cannot be read) the model name
TierPower(gpu) ==
    IF "tdp" \in DOMAIN gpu.specs THEN MilliOf(gpu.specs["tdp"])
    ELSE IF /\ "recommended_psu" \in DOMAIN gpu.specs
            /\ Len(SearchDigits(StrOf(gpu.specs["recommended_psu"]))) > 0
    THEN IntOfDigits(SearchDigits(StrOf(gpu.specs["recommended_psu"]))) * 400
    ELSE LET name == Lower(gpu.model.s)
         IN  (CASE Contains(m_rtx_4090, name) \/ Contains(m_rx_7900_xtx, name) -> 450
                [] Contains(m_rtx_4080, name) \/ Contains(m_rx_7900_xt, name) -> 320
                [] Contains(m_rtx_4070, name) \/ Contains(m_rx_7800_xt, name) -> 200
                [] Contains(m_rtx_4060, name) \/ Contains(m_rx_7700_xt, name) -> 160
                [] OTHER -> 150) * 1000

\* a tier of the gpu gives a wattage: a numeric tdp, or no tdp and either a
\* recommended_psu holding a number or a model string
Resolvable(gpu) ==
    /\ "specs" \in gpu.fields
    /\ ("tdp" \in DOMAIN gpu.specs) => (gpu.specs["tdp"].t \in {"num", "float"})
    /\ \/ "tdp" \in DOMAIN gpu.specs
       \/ /\ "recommended_psu" \in DOMAIN gpu.specs
          /\ Len(SearchDigits(StrOf(gpu.specs["recommended_psu"]))) > 0
       \/ "model" \in gpu.fields /\ IsStr(gpu.model)

\* records as in the example: a category; cpus and gpus with specs, a tdp
\* being a number where given; name and model only where a tier reads them
ExampleShaped(config_list) ==
    \A i \in 1..Len(config_list) :
        LET c == config_list[i]
        IN  /\ (c.category = c_cpu)
               => /\ "specs" \in c.fields
                  /\ ("tdp" \in DOMAIN c.specs) => IsNum(c.specs["tdp"])
            /\ (c.category = c_gpu) => Resolvable(c)

\* cpu share + gpu shares + table shares, as described
DescribedTotal(config_list) ==
    LET cpus == OfCategory(config_list, c_cpu)
        gpus == OfCategory(config_list, c_gpu)
    IN  (IF Len(cpus) = 0 THEN 0
         ELSE (MilliOf(Get(cpus[1].specs, "tdp", Num(65))) * 120) \div 100)
        + SumTo([i \in 1..Len(gpus) |-> (TierPower(gpus[i]) * 115) \div 100], Len(gpus))
        + SumTo([i \in 1..Len(COMPONENT_POWER_ESTIMATES) |->
                    COMPONENT_POWER_ESTIMATES[i].estimate * 1000
                    * component_counts(config_list, COMPONENT_POWER_ESTIMATES[i].comp_type)],
                Len(COMPONENT_POWER_ESTIMATES))

\* [cpu tdp 65, gpu tdp 200, ram, ssd]
SpecExample ==
    << cpu_65, Part(c_gpu, {"specs"}, Null, "tdp" :> Num(200)), Plain(c_ram), Plain(c_ssd) >>

\* C12: for a configuration shaped as the example, the total is the first
\* cpu's tdp (default 65) * 1.20 + every gpu's resolved power * 1.15 + the table
\* shares; the example gives 78, 230, 5 and 5, total 318, recommended PSU 450.
C12_TotalIsSumOfShares ==
    (IsEstimate /\ ExampleShaped(call.config_list))
    => /\ call.outcome.kind = "ok"
       /\ call.outcome.total_power = DescribedTotal(call.config_list)
       /\ (call.config_list = SpecExample)
          => /\ call.outcome.total_power_estimate = 318
             /\ call.outcome.recommended_psu_wattage = 450
             /\ call.outcome.component_breakdown[c_cpu] = 78000
             /\ call.outcome.component_breakdown[c_ram] = 5000
             /\ call.outcome.component_breakdown[c_ssd] = 5000
             /\ \E k \in DOMAIN call.outcome.component_breakdown :
                    call.outcome.component_breakdown[k] = 230000

StandardWattages == {450, 550, 650, 750, 850, 1000, 1200, 1500}

\* total power * margin in ten-thousandths of a watt: margin 1.30 above 600 W,
\* otherwise 1.20
Demand(total_power) == total_power * (IF total_power > 600 * 1000 THEN 13 ELSE 12)

\* C13: the recommendation is total power * margin rounded up to the smallest
\* standard wattage not below it (so never smaller than total * margin); above
\* 1500 it is the nearest multiple of 100; the empty configuration gives total 0
\* and 450.
C13_RecommendationRoundsUp ==
    (IsEstimate /\ call.outcome.kind = "ok")
    => LET demand == Demand(call.outcome.total_power)
           psu == call.outcome.recommended_psu_wattage
       IN  /\ (demand <= 1500 * 10000)
              => /\ psu \in StandardWattages
                 /\ psu * 10000 >= demand
                 /\ \A w \in StandardWattages : (w * 10000 >= demand) => (psu <= w)
           /\ (demand > 1500 * 10000)
              => /\ psu % 100 = 0
                 /\ psu * 10000 - demand <= 50 * 10000
                 /\ demand - psu * 10000 <= 50 * 10000
           /\ (call.config_list = <<>>)
              => (call.outcome.total_power_estimate = 0 /\ psu = 450)

\* C14: each gpu's power is the first available tier of tdp, number in
\* recommended_psu * 0.40, model name; a gpu without tdp whose recommended_psu
\* holds no number goes on to the model name; nothing is raised.
C14_GpuPowerByTier ==
    (/\ IsEstimate
     /\ ExampleShaped(call.config_list)
     /\ \A i \in 1..Len(call.config_list) :
            (call.config_list[i].category = c_gpu)
            => ("model" \in call.config_list[i].fields /\ IsStr(call.config_list[i].model)))
    => LET gpus == OfCategory(call.config_list, c_gpu)
       IN  /\ call.outcome.kind = "ok"
           /\ \A i \in 1..Len(gpus) :
                 (\A j \in (i + 1)..Len(gpus) : gpus[j].model # gpus[i].model)
                 => /\ GpuKey(gpus[i]) \in DOMAIN call.outcome.component_breakdown
                    /\ call.outcome.component_breakdown[GpuKey(gpus[i])]
                       = (TierPower(gpus[i]) * 115) \div 100

\* C15: the estimate never raises on records that carry a category, whatever
\* else is missing or malformed in them.
C15_EstimateNeverRaises == IsEstimate => (call.outcome.kind = "ok")

\* the components costed under key: its own table category, or for the
\* catch-all every component of a category the table does not name
CostedUnder(config_list, key) ==
    Cardinality({i \in 1..Len(config_list) :
        IF key = c_other
        THEN config_list[i].category \notin TableCategories \cup {c_cpu, c_gpu}
        ELSE config_list[i].category = key})

\* C16: every component that is neither cpu nor gpu contributes per-unit
\* wattage * count, a category the table does not name under the catch-all
\* "other" at 30 W each; a category without component has no breakdown entry.
C16_EveryOtherComponentIsCosted ==
    (IsEstimate /\ call.outcome.kind = "ok")
    => /\ \A key \in TableCategories \cup {c_other} :
             IF CostedUnder(call.config_list, key) > 0
             THEN /\ key \in DOMAIN call.outcome.component_breakdown
                  /\ call.outcome.component_breakdown[key]
                     = PerUnit(key) * 1000 * CostedUnder(call.config_list, key)
             ELSE key \notin DOMAIN call.outcome.component_breakdown
       /\ (\A i \in 1..Len(call.config_list) :
               call.config_list[i].category \notin {c_cpu, c_gpu})
          => call.outcome.total_power
             = SumTo([i \in 1..Len(call.config_list) |->
                         PerUnit(call.config_list[i].category) * 1000],
                     Len(call.config_list))

(***************************************************************************)
(* Frame properties.                                                       *)
(***************************************************************************)
\* the result of the call that ended is what its arguments alone give, with
\* the rule table of a new checker
ResultFromArguments ==
    (pc = "returned")
    => /\ (call.op = "check")
          => LET r == check_compatibility(InitRules, call.a, call.b, call.response)
             IN  call.outcome = r.outcome /\ call.local = r.local
       /\ (call.op = "filter")
          => (call.outcome = _apply_spec_filters(call.items, call.filters))
       /\ (call.op = "estimate")
          => (call.outcome = calculate_power_consumption(call.config_list))

HasWattage(v) == IsNum(v) \/ (IsStr(v) /\ Len(SearchDigits(v.s)) > 0)

\* the wattage, of a number or of a string such as "650W"
Wattage(v) == IF IsNum(v) THEN v.n ELSE IntOfDigits(SearchDigits(v.s))

\* all four fields of the GPU power-supply rule are present
FourPowerFields(gpu, power) ==
    /\ {"recommended_psu", "power_connectors"} \subseteq DOMAIN gpu.specs
    /\ {"output_power", "pcie_connectors"} \subseteq DOMAIN power.specs
    /\ HasWattage(gpu.specs["recommended_psu"]) /\ HasWattage(power.specs["output_power"])
    /\ IsNum(gpu.specs["power_connectors"]) /\ IsNum(power.specs["pcie_connectors"])

\* C18: with all four fields present the GPU power-supply rule says compatible
\* iff the PSU's wattage is numerically at least the GPU's recommended wattage
\* and its PCIe connectors are at least those required, also for wattages given
\* as strings such as "650W"; otherwise the reason lists exactly the violated
\* sub-conditions; the confidence is 0.9 either way.
C18_GpuPowerRule ==
    (/\ IsCheck
     /\ call.a.category = c_gpu /\ call.b.category = c_power
     /\ FourPowerFields(call.a, call.b))
    => LET low == Wattage(call.b.specs["output_power"])
                  < Wattage(call.a.specs["recommended_psu"])
           few == call.b.specs["pcie_connectors"].n < call.a.specs["power_connectors"].n
       IN  /\ call.local.kind = "ok"
           /\ call.local.v.conf = 90
           /\ call.local.v.compatible = (IF low \/ few THEN "false" ELSE "true")
           /\ call.local.v.reason.tag =
                 (IF low /\ few THEN "power_low;connectors_few"
                  ELSE IF low THEN "power_low"
                  ELSE IF few THEN "connectors_few"
                  ELSE "power_ok")

\* the text holds an integer
HasInteger(v) == IsStr(v) /\ Len(SearchDigits(v.s)) > 0

\* C19: GPU-case rule: with the first integer of the GPU length text and of
\* the case's max-GPU-length text, compatible with confidence 1.0 iff the
\* length is at most the max, incompatible with confidence 0.9 otherwise; for
\* "300mm" against "350mm" compatible, the reason mentioning both numbers.
C19_GpuCaseRule ==
    (/\ IsCheck
     /\ call.a.category = c_gpu /\ call.b.category = c_case
     /\ "length" \in DOMAIN call.a.specs /\ HasInteger(call.a.specs["length"])
     /\ "max_gpu_length" \in DOMAIN call.b.specs
     /\ HasInteger(call.b.specs["max_gpu_length"]))
    => LET length == IntOfDigits(SearchDigits(call.a.specs["length"].s))
           max == IntOfDigits(SearchDigits(call.b.specs["max_gpu_length"].s))
           mentioned == {call.local.v.reason.args[i] :
                            i \in 1..Len(call.local.v.reason.args)}
       IN  /\ call.local.kind = "ok"
           /\ call.local.v.compatible = (IF length <= max THEN "true" ELSE "false")
           /\ call.local.v.conf = (IF length <= max THEN 100 ELSE 90)
           /\ (call.a.specs["length"] = Str(s_300mm)
               /\ call.b.specs["max_gpu_length"] = Str(s_350mm))
              => (call.local.v.compatible = "true"
                  /\ {Num(300), Num(350)} \subseteq mentioned)

\* the socket text in lower case, without the characters that are no letter
\* or digit
Normalised(socket) == SelectSeq(Lower(socket), IsLowerAlnum)

\* both components have a socket field holding text
BothSocketsPresent(cpu, motherboard) ==
    /\ "socket" \in DOMAIN cpu.specs /\ IsStr(cpu.specs["socket"])
    /\ "socket" \in DOMAIN motherboard.specs /\ IsStr(motherboard.specs["socket"])

\* C20, as claimed: when both socket fields are present the CPU-motherboard
\* rule says compatible iff the sockets are equal after normalisation,
\* incompatible otherwise, with confidence 1.0 in both cases.
C20_SocketRuleWhenPresent ==
    (/\ IsCheck
     /\ call.a.category = c_cpu /\ call.b.category = c_motherboard
     /\ BothSocketsPresent(call.a, call.b))
    => /\ call.local.kind = "ok"
       /\ call.local.v.conf = 100
       /\ call.local.v.compatible =
             (IF Normalised(call.a.specs["socket"].s) = Normalised(call.b.specs["socket"].s)
              THEN "true" ELSE "false")

\* C20, amended: that holds when both sockets are non-empty after
\* normalisation ("LGA 1700" and "lga1700" being equal); a socket that
\* normalises to nothing, such as "--", counts as missing: unknown, confidence
\* 0.5.
C20_SocketRuleWhenNonEmpty ==
    (/\ IsCheck
     /\ call.a.category = c_cpu /\ call.b.category = c_motherboard
     /\ BothSocketsPresent(call.a, call.b))
    => LET cpu_socket == Normalised(call.a.specs["socket"].s)
           mobo_socket == Normalised(call.b.specs["socket"].s)
       IN  /\ call.local.kind = "ok"
           /\ IF Len(cpu_socket) > 0 /\ Len(mobo_socket) > 0
              THEN /\ call.local.v.conf = 100
                   /\ call.local.v.compatible =
                         (IF cpu_socket = mobo_socket THEN "true" ELSE "false")
              ELSE /\ call.local.v.conf = 50
                   /\ call.local.v.compatible = "none"
           /\ (call.a.specs["socket"] = Str(s_LGA_1700)
               /\ call.b.specs["socket"] = Str(s_lga1700))
              => call.local.v.compatible = "true"

\* "LGA 1700" against "lga1700" was found compatible with confidence 1.0
C20_Witness ==
    /\ IsCheck
    /\ call.a.category = c_cpu /\ call.b.category = c_motherboard
    /\ BothSocketsPresent(call.a, call.b)
    /\ call.a.specs["socket"] = Str(s_LGA_1700)
    /\ call.b.specs["socket"] = Str(s_lga1700)
    /\ call.local.kind = "ok"
    /\ call.local.v.compatible = "true"
    /\ call.local.v.conf = 100
    /\ call.outcome = call.local

(***************************************************************************)
(* Invariants of the results.                                              *)
(***************************************************************************)
\* the adjudicator's answer, when it is a verdict, has a boolean compatible
BooleanAnswer(response) ==
    WellFormed(response) => (response.compatible \in {"true", "false"})

\* C21: provided the adjudicator returns a boolean compatible field, check
\* never returns an unknown compatibility: every verdict it returns is a
\* decisive local verdict with confidence 0.9 or 1.0, or the adjudicator's
\* verdict; and no local rule pairs an unknown result with a confidence above
\* 0.8.
C21_CheckNeverReturnsUnknown ==
    /\ (IsCheck /\ call.outcome.kind = "ok" /\ BooleanAnswer(call.response))
       => /\ call.outcome.v.compatible \in {"true", "false"}
          /\ \/ /\ call.calls = 0
                /\ call.outcome = call.local
                /\ call.outcome.v.conf \in {90, 100}
             \/ /\ call.calls = 1
                /\ call.outcome.v = (IF WellFormed(call.response)
                                     THEN VerdictOf(call.response) ELSE LlmFailed)
    /\ (IsCheck /\ call.local.kind = "ok" /\ call.local.v.compatible = "none")
       => (call.local.v.conf <= 80)

\* the GPU power-supply rule found the fields incomplete (unknown, 0.6) and the
\* adjudicator's boolean verdict was returned in its place
C21_Witness ==
    /\ IsCheck
    /\ call.a.category = c_gpu /\ call.b.category = c_power
    /\ call.local.kind = "ok"
    /\ call.local.v.compatible = "none" /\ call.local.v.conf = 60
    /\ call.calls = 1
    /\ WellFormed(call.response) /\ call.response.compatible = "false"
    /\ call.outcome = Returned(VerdictOf(call.response))

\* every value in the specs of every component is a number
NumericSpecs(config_list) ==
    \A i \in 1..Len(config_list) :
        \A k \in DOMAIN config_list[i].specs : IsNum(config_list[i].specs[k])

\* C22: for every configuration with numeric spec values the recommended
\* wattage is at least the total power estimate and at least 450, and it is a
\* standard wattage or a multiple of 100 above 1500.
C22_RecommendationBounds ==
    (IsEstimate /\ call.outcome.kind = "ok" /\ NumericSpecs(call.config_list))
    => LET psu == call.outcome.recommended_psu_wattage
       IN  /\ psu >= call.outcome.total_power_estimate
           /\ psu >= 450
           /\ \/ psu \in StandardWattages
              \/ psu > 1500 /\ psu % 100 = 0

\* a build with numeric specs whose demand is beyond the list of wattages
C22_Witness ==
    /\ IsEstimate /\ call.outcome.kind = "ok"
    /\ NumericSpecs(call.config_list)
    /\ \E i \in 1..Len(call.config_list) :
           /\ call.config_list[i].category = c_gpu
           /\ "tdp" \in DOMAIN call.config_list[i].specs
    /\ call.outcome.recommended_psu_wattage > 1500

\* the sum of the values of a breakdown
RECURSIVE SumOfValues(_)
SumOfValues(breakdown) ==
    IF DOMAIN breakdown = {} THEN 0
    ELSE LET k == CHOOSE x \in DOMAIN breakdown : TRUE
         IN  breakdown[k]
             + SumOfValues([x \in DOMAIN breakdown \ {k} |-> breakdown[x]])

\* the positions of the gpus whose model string a later gpu has too
Overwritten(gpu_components) ==
    {i \in 1..Len(gpu_components) :
        \E j \in (i + 1)..Len(gpu_components) :
            gpu_components[j].model = gpu_components[i].model}

\* the power of the gpus at the positions in where
RECURSIVE PowerOfGpusAt(_, _)
PowerOfGpusAt(gpu_components, where) ==
    IF where = {} THEN 0
    ELSE LET i == CHOOSE x \in where : TRUE
         IN  GpuPower(gpu_components[i]).mw
             + PowerOfGpusAt(gpu_components, where \ {i})

\* C23: when no two gpus share a model string the total power estimate is the
\* rounded sum of the values in the breakdown; when two gpus share one, all of
\* them are counted in the total and the breakdown holds a single entry for
\* them, that of the last.
C23_BreakdownSumsToTotal ==
    (IsEstimate /\ call.outcome.kind = "ok")
    => LET gpu_components == OfCategory(call.config_list, c_gpu)
           breakdown == call.outcome.component_breakdown
           gpu_keys == {GpuKey(gpu_components[i]) : i \in 1..Len(gpu_components)}
       IN  /\ (Overwritten(gpu_components) = {})
              => /\ call.outcome.total_power = SumOfValues(breakdown)
                 /\ call.outcome.total_power_estimate
                    = RoundHalfEven(SumOfValues(breakdown), 1000)
           /\ call.outcome.total_power
              = SumOfValues(breakdown)
                + PowerOfGpusAt(gpu_components, Overwritten(gpu_components))
           /\ \A i \in 1..Len(gpu_components) :
                 /\ GpuKey(gpu_components[i]) \in DOMAIN breakdown
                 /\ (i \notin Overwritten(gpu_components))
                    => breakdown[GpuKey(gpu_components[i])]
                       = GpuPower(gpu_components[i]).mw
           /\ Cardinality(gpu_keys)
              = Len(gpu_components) - Cardinality(Overwritten(gpu_components))

\* two gpus of one model: the total is above the sum of the breakdown
C23_Witness ==
    /\ IsEstimate /\ call.outcome.kind = "ok"
    /\ Overwritten(OfCategory(call.config_list, c_gpu)) # {}
    /\ call.outcome.total_power > SumOfValues(call.outcome.component_breakdown)
    /\ call.outcome.total_power_estimate
       > RoundHalfEven(SumOfValues(call.outcome.component_breakdown), 1000)

(***************************************************************************)
(* Properties of the knowledge-builder pipeline.                           *)
(***************************************************************************)
\* a run of process_videos has ended
IsProcess == pc = "returned" /\ call.op = "process"

\* a task left extracted and not enhanced
LeftOver(task) == task.extracted /\ ~task.enhanced

\* a run that went through its loop has enhanced every task it read as left
\* over and for which the language model answered, and the file says so
RunEnhancesLeftOver ==
    (IsProcess /\ ~call.raised)
    => \A k \in 1..Len(call.read) :
          (LeftOver(call.read[k]) /\ call.generated[k] = "text")
          => /\ call.tasks[k].enhanced
             /\ read_video_tasks(csv_rows)[k].enhanced

\* in the file no flag goes from true to false, and enhanced becomes true only
\* on a task that is extracted
FlagsStay ==
    /\ Len(read_video_tasks(csv_rows')) = Len(read_video_tasks(csv_rows))
    /\ \A k \in 1..Len(read_video_tasks(csv_rows)) :
          LET before == read_video_tasks(csv_rows)[k]
              after == read_video_tasks(csv_rows')[k]
          IN  /\ before.extracted => after.extracted
              /\ before.enhanced => after.enhanced
              /\ (~before.enhanced /\ after.enhanced) => after.extracted

\* C24: a task that a previous run left in the CSV as extracted and not
\* enhanced is enhanced by a later run of process_videos whenever the enhancer
\* succeeds on its transcript (the flag becomes true and the CSV is
\* rewritten); the flags of a task never go from true back to false, and
\* enhanced is only ever set on a task that is extracted.
C24_LaterRunEnhancesLeftOver == []RunEnhancesLeftOver /\ [][FlagsStay]_vars

====
